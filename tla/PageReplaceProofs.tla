------------------------- MODULE PageReplaceProofs --------------------------
(***************************************************************************)
(* Proofs about PageReplace, for every number of references, every set of  *)
(* pages and every set of strings: the types, the ages of FIFO and LRU,    *)
(* that both report the faults of a queue, and that no replacement makes   *)
(* fewer faults than Optimal.                                              *)
(***************************************************************************)
EXTENDS PageReplace, InductionLemmas

(* The constants, as the proofs use them.                                  *)
LEMMA Sizes ==
  /\ M = 3 /\ First = 3 /\ N \in Nat /\ N >= 3
  /\ Frame = {0, 1, 2} /\ Frame \subseteq 0 .. N - 1
<1>1. M = 3 /\ First = 3 /\ N \in Nat /\ N >= 3
  BY PageReplaceAssumption DEF First
<1>2. Frame = {0, 1, 2}
  BY <1>1 DEF Frame
<1> QED BY <1>1, <1>2

(* A string begins with different pages.                                   *)
LEMMA StringType ==
  ASSUME NEW s \in Strings
  PROVE  /\ s \in [0 .. N - 1 -> Page]
         /\ \A j, k \in Frame : s[j] = s[k] => j = k
BY PageReplaceAssumption

(* In the loop the references before i have been simulated and no age is   *)
(* greater than their number.                                              *)
LoopInv ==
  pc = "loop" => /\ i >= First /\ ch \in Algorithm
                 /\ \A j \in Frame : iBlockFlag[j] <= i - 1

TypeInv == TypeOK /\ LoopInv /\ (pc \in {"load", "report"} => ch \in Algorithm)

(* The first greatest element of a vector over the frames exists.          *)
LEMMA FirstMaxFacts ==
  ASSUME NEW v \in [Frame -> Int]
  PROVE  /\ FirstMax(v) \in Frame
         /\ \A k \in Frame : v[k] <= v[FirstMax(v)]
<1> DEFINE Best(j) == \A k \in Frame : v[k] < v[j] \/ (v[k] = v[j] /\ j <= k)
<1>1. \E j \in Frame : Best(j)
  <2>1. v[0] \in Int /\ v[1] \in Int /\ v[2] \in Int
    BY Sizes
  <2>2. CASE v[0] >= v[1] /\ v[0] >= v[2]
    <3>1. 0 \in Frame /\ Best(0)
      BY <2>1, <2>2, Sizes
    <3> QED BY <3>1
  <2>3. CASE v[1] > v[0] /\ v[1] >= v[2]
    <3>1. 1 \in Frame /\ Best(1)
      BY <2>1, <2>3, Sizes
    <3> QED BY <3>1
  <2>4. CASE v[2] > v[0] /\ v[2] > v[1]
    <3>1. 2 \in Frame /\ Best(2)
      BY <2>1, <2>4, Sizes
    <3> QED BY <3>1
  <2> QED BY <2>1, <2>2, <2>3, <2>4
<1>2. FirstMax(v) = CHOOSE j \in Frame : Best(j)
  BY DEF FirstMax
<1>3. FirstMax(v) \in Frame /\ Best(FirstMax(v))
  <2> HIDE DEF Best
  <2> QED BY <1>1, <1>2
<1> QED BY <1>3

(* The program begins in the menu.                                         *)
LEMMA InitType == Init => TypeInv /\ pc = "menu"
<1> SUFFICES ASSUME Init
             PROVE  TypeInv /\ pc = "menu"
  OBVIOUS
<1>1. iPageString \in Strings /\ iPageString \in [0 .. N - 1 -> Page]
  BY StringType DEF Init
<1>2. 0 \in 0 .. N - 1 /\ 0 \in 0 .. N
  BY Sizes
<1> QED BY <1>1, <1>2 DEF Init, TypeInv, TypeOK, LoopInv, Algorithm

(* One turn of a loop, seen from the types.                                *)
LEMMA TurnType ==
  ASSUME TypeInv, NEW a \in Algorithm, NEW f \in {0, 1}, Turn(a, f),
         iPageNum' \in [Frame -> Page],
         \A j \in Frame : iBlockFlag'[j] \in {0, iBlockFlag[j], iBlockFlag[j] + 1},
         iBlockFlag' = [j \in Frame |-> iBlockFlag'[j]]
  PROVE  TypeInv'
<1>1. /\ pc = "loop" /\ i < N /\ i \in 0 .. N /\ i >= 3 /\ N \in Nat
      /\ flag' = [flag EXCEPT ![i] = f] /\ i' = i + 1
      /\ UNCHANGED <<iPageString, ch, pc>>
      /\ flag \in [0 .. N - 1 -> {0, 1}]
      /\ ch \in Algorithm
  BY Sizes DEF Turn, TypeInv, TypeOK, LoopInv
<1>2. flag' \in [0 .. N - 1 -> {0, 1}] /\ i' \in 0 .. N /\ i' >= First
  BY <1>1, Sizes
<1>3. ASSUME NEW j \in Frame
      PROVE  iBlockFlag'[j] \in 0 .. N - 1 /\ iBlockFlag'[j] <= i' - 1
  <2>1. iBlockFlag[j] \in 0 .. N - 1 /\ iBlockFlag[j] <= i - 1
    BY <1>1 DEF TypeInv, TypeOK, LoopInv
  <2> QED BY <1>1, <2>1
<1>4. iBlockFlag' \in [Frame -> 0 .. N - 1]
  BY <1>3
<1>5. TypeOK'
  BY <1>1, <1>2, <1>4 DEF TypeInv, TypeOK
<1> QED BY <1>1, <1>2, <1>3, <1>5 DEF TypeInv, LoopInv

(* No step leaves the types, and no age outruns its reference.             *)
LEMMA NextType ==
  ASSUME TypeInv, [Next]_vars
  PROVE  TypeInv'
<1>1. /\ iPageString \in [0 .. N - 1 -> Page] /\ i \in 0 .. N
      /\ iPageNum \in [Frame -> Page] /\ iBlockFlag \in [Frame -> 0 .. N - 1]
  BY StringType DEF TypeInv, TypeOK
<1>2. CASE UNCHANGED vars
  BY <1>2 DEF vars, blocks, TypeInv, TypeOK, LoopInv
<1>3. CASE Menu
  <2>1. [k \in 0 .. N - 1 |-> 0] \in [0 .. N - 1 -> {0, 1}]
    OBVIOUS
  <2>2. flag' \in [0 .. N - 1 -> {0, 1}]
    BY <1>3, <2>1 DEF Menu, TypeInv, TypeOK
  <2> QED BY <1>3, <2>2 DEF Menu, Goto, blocks, TypeInv, TypeOK, LoopInv, Algorithm
<1>4. CASE InitialBlock
  <2>1. flag' \in [0 .. N - 1 -> {0, 1}]
    BY <1>4 DEF InitialBlock, TypeInv, TypeOK
  <2>2. iPageNum' \in [Frame -> Page]
    BY <1>1, <1>4, Sizes DEF InitialBlock
  <2>3. /\ iBlockFlag' \in [Frame -> 0 .. N - 1]
        /\ \A j \in Frame : iBlockFlag'[j] <= 2
    BY <1>4, Sizes DEF InitialBlock
  <2>4. i' \in 0 .. N /\ i' = 3
    BY <1>4, Sizes DEF InitialBlock
  <2> QED BY <1>4, <2>1, <2>2, <2>3, <2>4, Sizes
          DEF InitialBlock, Goto, TypeInv, TypeOK, LoopInv
<1>5. CASE FifoHit \/ LruHit \/ OptHit
  <2>1. PICK a \in Algorithm : Turn(a, 0)
    BY <1>5 DEF FifoHit, LruHit, OptHit, Algorithm
  <2>2. /\ iPageNum' \in [Frame -> Page]
        /\ \A j \in Frame : iBlockFlag'[j] \in {0, iBlockFlag[j], iBlockFlag[j] + 1}
        /\ iBlockFlag' = [j \in Frame |-> iBlockFlag'[j]]
    BY <1>1, <1>5 DEF FifoHit, LruHit, OptHit, Age, blocks
  <2> QED BY <2>1, <2>2, TurnType
<1>6. CASE FifoMiss \/ LruMiss \/ OptMiss
  <2>1. PICK a \in Algorithm : Turn(a, 1)
    BY <1>6 DEF FifoMiss, LruMiss, OptMiss, Algorithm
  <2>2. iPageString[i] \in Page
    <3>1. i \in 0 .. N - 1
      BY <1>1, <2>1, Sizes DEF Turn
    <3> QED BY <1>1, <3>1
  <2>3. iPageNum' \in [Frame -> Page]
    BY <1>1, <1>6, <2>2 DEF FifoMiss, LruMiss, OptMiss, Load
  <2>4. /\ \A j \in Frame : iBlockFlag'[j] \in {0, iBlockFlag[j], iBlockFlag[j] + 1}
        /\ iBlockFlag' = [j \in Frame |-> iBlockFlag'[j]]
    BY <1>1, <1>6 DEF FifoMiss, LruMiss, OptMiss, Age
  <2> QED BY <2>1, <2>3, <2>4, TurnType
<1>7. CASE LoopEnds \/ Report
  BY <1>7, Sizes DEF LoopEnds, Report, Goto, blocks, TypeInv, TypeOK, LoopInv
<1>8. CASE Exit
  BY <1>8 DEF Exit, vars, blocks, TypeInv, TypeOK, LoopInv
<1> QED BY <1>2, <1>3, <1>4, <1>5, <1>6, <1>7, <1>8 DEF Next

(* The types and the bounds of the loop are an invariant.                  *)
LEMMA TypeInvariance == Spec => []TypeInv
<1>1. Init => TypeInv
  BY InitType
<1>2. TypeInv /\ [Next]_vars => TypeInv'
  BY NextType
<1> QED BY <1>1, <1>2, PTL DEF Spec

(* Whatever was simulated before, no age reaches the length of the string. *)
THEOREM TypeCorrect == Spec => []TypeOK
<1>1. TypeInv => TypeOK
  BY DEF TypeInv
<1> QED BY <1>1, TypeInvariance, PTL

(* What every turn has in common, with the types of what it reads.         *)
LEMMA TurnFacts ==
  ASSUME TypeInv, NEW a, NEW f, Turn(a, f)
  PROVE  /\ pc = "loop" /\ pc' = "loop" /\ ch = a /\ ch' = a
         /\ i \in 3 .. N - 1 /\ i \in 0 .. N - 1 /\ i' = i + 1 /\ i' - 1 = i
         /\ iPageString \in [0 .. N - 1 -> Page] /\ iPageString' = iPageString
         /\ iPageString[i] \in Page
         /\ flag \in [0 .. N - 1 -> {0, 1}] /\ flag' = [flag EXCEPT ![i] = f]
         /\ iPageNum \in [Frame -> Page]
         /\ iBlockFlag \in [Frame -> 0 .. N - 1] /\ iBlockFlag \in [Frame -> Int]
<1>1. /\ pc = "loop" /\ ch = a /\ i < N /\ i' = i + 1
      /\ UNCHANGED <<iPageString, ch, pc>> /\ flag' = [flag EXCEPT ![i] = f]
  BY DEF Turn
<1>2. /\ i \in 0 .. N /\ flag \in [0 .. N - 1 -> {0, 1}]
      /\ iPageNum \in [Frame -> Page] /\ iBlockFlag \in [Frame -> 0 .. N - 1]
      /\ iPageString \in [0 .. N - 1 -> Page]
  BY StringType DEF TypeInv, TypeOK
<1>3. i >= 3
  BY <1>1, Sizes DEF TypeInv, LoopInv
<1>4. i \in 3 .. N - 1 /\ i \in 0 .. N - 1 /\ i' - 1 = i
  BY <1>1, <1>2, <1>3, Sizes
<1>5. iBlockFlag \in [Frame -> Int]
  BY <1>2
<1> QED BY <1>1, <1>2, <1>4, <1>5

(* The next use of a page is the first one, or the end of the string.      *)
LEMMA AllocateFacts ==
  ASSUME NEW p, NEW from \in 0 .. N
  PROVE  /\ allocate(p, from) \in from .. N
         /\ allocate(p, from) < N => iPageString[allocate(p, from)] = p
         /\ \A k \in from .. allocate(p, from) - 1 : iPageString[k] # p
<1> DEFINE uses == {k \in from .. N - 1 : iPageString[k] = p}
<1>1. CASE uses = {}
  <2>1. allocate(p, from) = N
    BY <1>1 DEF allocate
  <2> QED BY <1>1, <2>1, Sizes
<1>2. CASE uses # {}
  <2>1. uses \in SUBSET Nat
    BY Sizes
  <2>2. \E k \in uses : \A l \in uses : k <= l
    <3> HIDE DEF uses
    <3> QED BY <1>2, <2>1, LeastElement
  <2>3. allocate(p, from) = CHOOSE k \in uses : \A l \in uses : k <= l
    BY <1>2 DEF allocate
  <2>4. /\ allocate(p, from) \in uses
        /\ \A l \in uses : allocate(p, from) <= l
    <3> HIDE DEF uses
    <3> QED BY <2>2, <2>3
  <2>5. /\ allocate(p, from) \in from .. N - 1
        /\ iPageString[allocate(p, from)] = p
    BY <2>4
  <2>6. ASSUME NEW k \in from .. allocate(p, from) - 1
        PROVE  iPageString[k] # p
    <3>1. k \in from .. N - 1 /\ ~(allocate(p, from) <= k)
      BY <2>5, Sizes
    <3> QED BY <2>4, <3>1
  <2> QED BY <2>5, <2>6, Sizes
<1> QED BY <1>1, <1>2

(* Optimal replaces a frame.                                               *)
LEMMA OptVictim ==
  ASSUME TypeInv, OptMiss
  PROVE  FirstMax([j \in Frame |-> allocate(iPageNum[j], i + 1)]) \in Frame
<1>1. Turn("o", 1)
  BY DEF OptMiss
<1>2. [j \in Frame |-> allocate(iPageNum[j], i + 1)] \in [Frame -> Int]
  <2>1. i + 1 \in 0 .. N
    BY <1>1, TurnFacts, Sizes
  <2>2. ASSUME NEW j \in Frame
        PROVE  allocate(iPageNum[j], i + 1) \in Int
    BY <2>1, AllocateFacts, Sizes
  <2> QED BY <2>2
<1> QED BY <1>2, FirstMaxFacts

FramesInv == TypeInv /\ FramesDistinct

(* A hit leaves the pages alone, a miss loads one that is not there.       *)
LEMMA FramesStep ==
  ASSUME FramesInv, [Next]_vars
  PROVE  FramesDistinct'
<1>1. TypeInv /\ FramesDistinct
  BY DEF FramesInv
<1>2. CASE UNCHANGED vars
  BY <1>1, <1>2 DEF vars, blocks, FramesDistinct
<1>3. CASE Menu
  <2>1. pc' # "loop"
    BY <1>3 DEF Menu, Goto
  <2> QED BY <2>1 DEF FramesDistinct
<1>4. CASE InitialBlock
  <2>1. iPageString \in [0 .. N - 1 -> Page]
        /\ \A j, k \in Frame : iPageString[j] = iPageString[k] => j = k
    BY <1>1, StringType DEF TypeInv, TypeOK
  <2>2. /\ iPageNum' = [j \in Frame |-> iPageString[j]]
        /\ i' = 3 /\ iPageString' = iPageString
    BY <1>4, Sizes DEF InitialBlock
  <2>3. 2 \in Frame /\ iPageNum'[2] = iPageString'[i' - 1]
    BY <2>2, Sizes
  <2>4. \A j, k \in Frame : iPageNum'[j] = iPageNum'[k] => j = k
    BY <2>1, <2>2
  <2> QED BY <2>3, <2>4 DEF FramesDistinct
<1>5. ASSUME NEW a, Turn(a, 0), ~Missed, UNCHANGED iPageNum
      PROVE  FramesDistinct'
  <2>1. /\ pc = "loop" /\ i' - 1 = i /\ iPageString' = iPageString
        /\ iPageNum' = iPageNum
    BY <1>1, <1>5, TurnFacts
  <2>2. \E j \in Frame : iPageNum[j] = iPageString[i]
    BY <1>5 DEF Missed
  <2> QED BY <1>1, <2>1, <2>2 DEF FramesDistinct
<1>6. ASSUME NEW a, NEW v \in Frame, Turn(a, 1), Missed, Load(v)
      PROVE  FramesDistinct'
  <2>1. /\ pc = "loop" /\ i' - 1 = i /\ iPageString' = iPageString
        /\ iPageNum \in [Frame -> Page] /\ iPageString[i] \in Page
    BY <1>1, <1>6, TurnFacts
  <2>2. iPageNum' = [iPageNum EXCEPT ![v] = iPageString[i]]
    BY <1>6 DEF Load
  <2>3. /\ \A j, k \in Frame : iPageNum[j] = iPageNum[k] => j = k
        /\ \A j \in Frame : iPageNum[j] # iPageString[i]
    BY <1>1, <1>6, <2>1 DEF FramesDistinct, Missed
  <2>4. /\ \A j, k \in Frame : iPageNum'[j] = iPageNum'[k] => j = k
        /\ iPageNum'[v] = iPageString'[i' - 1]
    BY <2>1, <2>2, <2>3
  <2> QED BY <2>4 DEF FramesDistinct
<1>7. CASE FifoHit \/ OptHit
  BY <1>5, <1>7 DEF FifoHit, OptHit, blocks
<1>8. CASE LruHit
  <2>1. ~Missed
    BY <1>8 DEF LruHit, HitFrame, Missed
  <2> QED BY <1>5, <1>8, <2>1 DEF LruHit
<1>9. CASE FifoMiss \/ LruMiss
  <2>1. PICK a \in {"f", "l"} :
          Turn(a, 1) /\ Missed /\ Load(FirstMax(iBlockFlag))
    BY <1>9 DEF FifoMiss, LruMiss
  <2>2. iBlockFlag \in [Frame -> Int]
    BY <1>1, <2>1, TurnFacts
  <2>3. FirstMax(iBlockFlag) \in Frame
    BY <2>2, FirstMaxFacts
  <2> QED BY <1>6, <2>1, <2>3
<1>10. CASE OptMiss
  BY <1>1, <1>6, <1>10, OptVictim DEF OptMiss
<1>11. CASE LoopEnds \/ Report
  <2>1. pc' # "loop"
    BY <1>11 DEF LoopEnds, Report, Goto
  <2> QED BY <2>1 DEF FramesDistinct
<1>12. CASE Exit
  BY <1>2, <1>12 DEF Exit
<1> QED BY <1>2, <1>3, <1>4, <1>7, <1>8, <1>9, <1>10, <1>11, <1>12 DEF Next

(* The pages are different in every reachable state.                       *)
LEMMA FramesInvariance == Spec => []FramesInv
<1>1. Init => FramesInv
  BY InitType DEF FramesInv, FramesDistinct
<1>2. FramesInv /\ [Next]_vars => FramesInv'
  BY NextType, FramesStep DEF FramesInv
<1> QED BY <1>1, <1>2, PTL DEF Spec

(* Whatever was evicted, the frames hold different pages, one of them the  *)
(* page referenced last.                                                   *)
THEOREM PagesDistinct == Spec => []FramesDistinct
<1>1. FramesInv => FramesDistinct
  BY DEF FramesInv
<1> QED BY <1>1, FramesInvariance, PTL

(* The ages in FIFO: a hit loads nothing, a miss loads the youngest page.  *)
LEMMA FifoAgesStep ==
  ASSUME TypeInv, FifoAgeIsTimeLoaded, [Next]_vars
  PROVE  FifoAgeIsTimeLoaded'
<1>1. CASE UNCHANGED vars \/ Exit
  <2>1. UNCHANGED <<iPageString, ch, flag, iPageNum, iBlockFlag, i, pc>>
    BY <1>1 DEF Exit, vars, blocks
  <2> QED BY <2>1 DEF FifoAgeIsTimeLoaded, Since, Loads
<1>2. CASE InitialBlock
  <2>1. /\ iPageNum' = [j \in Frame |-> iPageString[j]]
        /\ iBlockFlag' = [j \in Frame |-> 2 - j]
        /\ flag' = [k \in 0 .. N - 1 |-> IF k \in Frame THEN 1 ELSE flag[k]]
        /\ i' = 3 /\ iPageString' = iPageString
    BY <1>2, Sizes DEF InitialBlock
  <2>2. \A j, k \in Frame : iPageString[j] = iPageString[k] => j = k
    BY StringType DEF TypeInv, TypeOK
  <2>3. ASSUME NEW j \in Frame
        PROVE  Since(iBlockFlag[j], Loads(iPageNum[j]))'
    <3>1. /\ iPageNum'[j] = iPageString[j] /\ (i' - 1) - iBlockFlag'[j] = j
          /\ 0 .. i' - 1 = Frame /\ flag'[j] = 1
      BY <2>1, <2>3, Sizes
    <3>2. \A k \in Loads(iPageNum[j])' : k = j
      BY <2>1, <2>2, <3>1 DEF Loads
    <3>3. j \in Loads(iPageNum[j])'
      BY <2>1, <3>1 DEF Loads
    <3>4. j \in Int
      BY Sizes
    <3> QED BY <3>1, <3>2, <3>3, <3>4 DEF Since
  <2> QED BY <2>3 DEF FifoAgeIsTimeLoaded
<1>3. CASE FifoHit
  <2>1. Turn("f", 0) /\ iPageNum' = iPageNum
        /\ iBlockFlag' = [j \in Frame |-> iBlockFlag[j] + 1]
    BY <1>3 DEF FifoHit, Age
  <2>2. /\ pc = "loop" /\ ch = "f" /\ i \in 0 .. N - 1 /\ i' = i + 1 /\ i' - 1 = i
        /\ flag \in [0 .. N - 1 -> {0, 1}] /\ flag' = [flag EXCEPT ![i] = 0]
        /\ iPageString' = iPageString
        /\ iBlockFlag \in [Frame -> Int]
    BY <2>1, TurnFacts
  <2>3. ASSUME NEW j \in Frame
        PROVE  Since(iBlockFlag[j], Loads(iPageNum[j]))'
    <3>1. Since(iBlockFlag[j], Loads(iPageNum[j]))
      BY <2>2, <2>3 DEF FifoAgeIsTimeLoaded
    <3>2. Loads(iPageNum[j])' = Loads(iPageNum[j])
      BY <2>1, <2>2, Sizes DEF Loads
    <3>3. (i' - 1) - iBlockFlag'[j] = (i - 1) - iBlockFlag[j]
      <4>1. iBlockFlag[j] \in Int /\ iBlockFlag'[j] = iBlockFlag[j] + 1
        BY <2>1, <2>2, <2>3
      <4> QED BY <2>2, <4>1
    <3> QED BY <3>1, <3>2, <3>3 DEF Since
  <2> QED BY <2>3 DEF FifoAgeIsTimeLoaded
<1>4. CASE FifoMiss
  <2> DEFINE loc == FirstMax(iBlockFlag)
  <2>1. Turn("f", 1) /\ Missed /\ Load(loc) /\ Age({loc})
    BY <1>4 DEF FifoMiss
  <2>2. /\ pc = "loop" /\ ch = "f" /\ i \in 0 .. N - 1 /\ i' = i + 1 /\ i' - 1 = i
        /\ flag \in [0 .. N - 1 -> {0, 1}] /\ flag' = [flag EXCEPT ![i] = 1]
        /\ iPageString' = iPageString
        /\ iPageNum \in [Frame -> Page]
        /\ iBlockFlag \in [Frame -> Int]
    BY <2>1, TurnFacts
  <2>3. loc \in Frame
    BY <2>2, FirstMaxFacts
  <2> HIDE DEF loc
  <2>4. ASSUME NEW j \in Frame
        PROVE  Since(iBlockFlag[j], Loads(iPageNum[j]))'
    <3>1. CASE j = loc
      <4>1. iPageNum'[j] = iPageString[i] /\ iBlockFlag'[j] = 0
        BY <2>1, <2>2, <2>3, <3>1 DEF Load, Age
      <4>2. i \in Loads(iPageNum[j])' /\ \A k \in Loads(iPageNum[j])' : k <= i
        BY <2>2, <4>1, Sizes DEF Loads
      <4>3. (i' - 1) - iBlockFlag'[j] = i
        BY <2>2, <4>1, Sizes
      <4> QED BY <4>2, <4>3 DEF Since
    <3>2. CASE j # loc
      <4>1. iPageNum'[j] = iPageNum[j] /\ iBlockFlag'[j] = iBlockFlag[j] + 1
        BY <2>1, <2>2, <2>3, <3>2 DEF Load, Age
      <4>2. Since(iBlockFlag[j], Loads(iPageNum[j]))
        BY <2>2, <2>4 DEF FifoAgeIsTimeLoaded
      <4>3. iPageNum[j] # iPageString[i]
        BY <2>1 DEF Missed
      <4>4. Loads(iPageNum[j])' = Loads(iPageNum[j])
        BY <2>2, <4>1, <4>3, Sizes DEF Loads
      <4>5. (i' - 1) - iBlockFlag'[j] = (i - 1) - iBlockFlag[j]
        <5>1. iBlockFlag[j] \in Int
          BY <2>2, <2>4
        <5> QED BY <2>2, <4>1, <5>1
      <4> QED BY <4>2, <4>4, <4>5 DEF Since
    <3> QED BY <3>1, <3>2
  <2> QED BY <2>4 DEF FifoAgeIsTimeLoaded
<1>5. CASE Menu \/ LoopEnds \/ Report
  <2>1. pc' # "loop"
    BY <1>5 DEF Menu, LoopEnds, Report, Goto
  <2> QED BY <2>1 DEF FifoAgeIsTimeLoaded
<1>6. CASE OptHit \/ OptMiss \/ LruHit \/ LruMiss
  <2>1. ch' # "f"
    BY <1>6 DEF OptHit, OptMiss, LruHit, LruMiss, Turn
  <2> QED BY <2>1 DEF FifoAgeIsTimeLoaded
<1> QED BY <1>1, <1>2, <1>3, <1>4, <1>5, <1>6 DEF Next

(* The ages in LRU: the page used last is the youngest, hit or missed.     *)
LEMMA LruAgesStep ==
  ASSUME FramesInv, LruAgeIsTimeUnused, [Next]_vars
  PROVE  LruAgeIsTimeUnused'
<1> USE DEF FramesInv
<1>1. CASE UNCHANGED vars \/ Exit
  <2>1. UNCHANGED <<iPageString, ch, flag, iPageNum, iBlockFlag, i, pc>>
    BY <1>1 DEF Exit, vars, blocks
  <2> QED BY <2>1 DEF LruAgeIsTimeUnused, Since, Uses
<1>2. CASE InitialBlock
  <2>1. /\ iPageNum' = [j \in Frame |-> iPageString[j]]
        /\ iBlockFlag' = [j \in Frame |-> 2 - j]
        /\ i' = 3 /\ iPageString' = iPageString
    BY <1>2, Sizes DEF InitialBlock
  <2>2. \A j, k \in Frame : iPageString[j] = iPageString[k] => j = k
    BY StringType DEF TypeInv, TypeOK
  <2>3. ASSUME NEW j \in Frame
        PROVE  Since(iBlockFlag[j], Uses(iPageNum[j]))'
    <3>1. /\ iPageNum'[j] = iPageString[j] /\ (i' - 1) - iBlockFlag'[j] = j
          /\ 0 .. i' - 1 = Frame
      BY <2>1, <2>3, Sizes
    <3>2. \A k \in Uses(iPageNum[j])' : k = j
      BY <2>1, <2>2, <3>1 DEF Uses
    <3>3. j \in Uses(iPageNum[j])'
      BY <2>1, <3>1 DEF Uses
    <3>4. j \in Int
      BY Sizes
    <3> QED BY <3>1, <3>2, <3>3, <3>4 DEF Since
  <2> QED BY <2>3 DEF LruAgeIsTimeUnused
<1>3. ASSUME NEW f, Turn("l", f), NEW v \in Frame,
             iPageNum'[v] = iPageString[i], iBlockFlag'[v] = 0,
             \A j \in Frame \ {v} :
               /\ iPageNum'[j] = iPageNum[j] /\ iPageNum[j] # iPageString[i]
               /\ iBlockFlag'[j] = iBlockFlag[j] + 1
      PROVE  LruAgeIsTimeUnused'
  <2>1. /\ pc = "loop" /\ ch = "l" /\ i \in 0 .. N - 1 /\ i' = i + 1 /\ i' - 1 = i
        /\ iPageString' = iPageString
        /\ iBlockFlag \in [Frame -> Int]
    BY <1>3, TurnFacts
  <2>2. ASSUME NEW j \in Frame
        PROVE  Since(iBlockFlag[j], Uses(iPageNum[j]))'
    <3>1. CASE j = v
      <4>1. i \in Uses(iPageNum[j])' /\ \A k \in Uses(iPageNum[j])' : k <= i
        BY <1>3, <2>1, <3>1, Sizes DEF Uses
      <4>2. (i' - 1) - iBlockFlag'[j] = i
        BY <1>3, <2>1, <3>1, Sizes
      <4> QED BY <4>1, <4>2 DEF Since
    <3>2. CASE j # v
      <4>1. Since(iBlockFlag[j], Uses(iPageNum[j]))
        BY <2>1, <2>2 DEF LruAgeIsTimeUnused
      <4>2. Uses(iPageNum[j])' = Uses(iPageNum[j])
        BY <1>3, <2>1, <3>2, Sizes DEF Uses
      <4>3. (i' - 1) - iBlockFlag'[j] = (i - 1) - iBlockFlag[j]
        BY <1>3, <2>1, <3>2, Sizes
      <4> QED BY <4>1, <4>2, <4>3 DEF Since
    <3> QED BY <3>1, <3>2
  <2> QED BY <2>2 DEF LruAgeIsTimeUnused
<1>4. CASE LruHit
  <2>1. PICK v \in Frame : HitFrame(v) /\ Age({v})
    BY <1>4 DEF LruHit
  <2>2. Turn("l", 0) /\ iPageNum' = iPageNum
    BY <1>4 DEF LruHit
  <2>3. iPageNum[v] = iPageString[i]
    BY <2>1 DEF HitFrame
  <2>4. pc = "loop"
    BY <2>2 DEF Turn
  <2>5. \A j \in Frame \ {v} : iPageNum[j] # iPageString[i]
    BY <2>3, <2>4 DEF FramesDistinct
  <2>6. /\ iBlockFlag'[v] = 0
        /\ \A j \in Frame \ {v} : iBlockFlag'[j] = iBlockFlag[j] + 1
    BY <2>1 DEF Age
  <2> QED BY <1>3, <2>2, <2>3, <2>5, <2>6
<1>5. CASE LruMiss
  <2> DEFINE v == FirstMax(iBlockFlag)
  <2>1. Turn("l", 1) /\ Missed /\ Load(v) /\ Age({v})
    BY <1>5 DEF LruMiss
  <2>2. iPageNum \in [Frame -> Page] /\ iBlockFlag \in [Frame -> Int]
    BY <2>1, TurnFacts
  <2>3. v \in Frame
    BY <2>2, FirstMaxFacts
  <2> HIDE DEF v
  <2>4. /\ iPageNum'[v] = iPageString[i] /\ iBlockFlag'[v] = 0
        /\ \A j \in Frame \ {v} :
             /\ iPageNum'[j] = iPageNum[j] /\ iPageNum[j] # iPageString[i]
             /\ iBlockFlag'[j] = iBlockFlag[j] + 1
    BY <2>1, <2>2, <2>3 DEF Load, Age, Missed
  <2> QED BY <1>3, <2>1, <2>3, <2>4
<1>6. CASE Menu \/ LoopEnds \/ Report
  <2>1. pc' # "loop"
    BY <1>6 DEF Menu, LoopEnds, Report, Goto
  <2> QED BY <2>1 DEF LruAgeIsTimeUnused
<1>7. CASE OptHit \/ OptMiss \/ FifoHit \/ FifoMiss
  <2>1. ch' # "l"
    BY <1>7 DEF OptHit, OptMiss, FifoHit, FifoMiss, Turn
  <2> QED BY <2>1 DEF LruAgeIsTimeUnused
<1> QED BY <1>1, <1>2, <1>4, <1>5, <1>6, <1>7 DEF Next

AgesInv == FramesInv /\ FifoAgeIsTimeLoaded /\ LruAgeIsTimeUnused

(* The ages are right in every reachable state.                            *)
LEMMA AgesInvariance == Spec => []AgesInv
<1>1. Init => AgesInv
  BY InitType DEF AgesInv, FramesInv, FramesDistinct, FifoAgeIsTimeLoaded,
                  LruAgeIsTimeUnused
<1>2. AgesInv /\ [Next]_vars => AgesInv'
  BY NextType, FramesStep, FifoAgesStep, LruAgesStep DEF AgesInv, FramesInv
<1> QED BY <1>1, <1>2, PTL DEF Spec

(* In FIFO the age of a frame is the time since its page was loaded,       *)
(* whatever was hit and evicted since.                                     *)
THEOREM FifoAges == Spec => []FifoAgeIsTimeLoaded
<1>1. AgesInv => FifoAgeIsTimeLoaded
  BY DEF AgesInv
<1> QED BY <1>1, AgesInvariance, PTL

(* In LRU it is the time since its page was used.                          *)
THEOREM LruAges == Spec => []LruAgeIsTimeUnused
<1>1. AgesInv => LruAgeIsTimeUnused
  BY DEF AgesInv
<1> QED BY <1>1, AgesInvariance, PTL

(* g counts the faults of the references before i, and they are n.         *)
CountedBy(g, n) ==
  /\ g \in [0 .. i -> Int] /\ g[0] = 0 /\ g[i] = n
  /\ \A k \in 1 .. i : g[k] = g[k - 1] + flag[k - 1]

Counted(n) == \E g : CountedBy(g, n)

(* The first three references are faults.                                  *)
LEMMA CountStart ==
  ASSUME TypeInv, InitialBlock
  PROVE  Counted(3)'
<1>1. /\ i' = 3
      /\ flag' = [k \in 0 .. N - 1 |-> IF k \in Frame THEN 1 ELSE flag[k]]
  BY Sizes DEF InitialBlock
<1> DEFINE g == [k \in 0 .. 3 |-> k]
<1>2. \A k \in 1 .. 3 : flag'[k - 1] = 1
  BY <1>1, Sizes
<1>3. g \in [0 .. 3 -> Int] /\ g[0] = 0 /\ g[3] = 3
  OBVIOUS
<1>4. \A k \in 1 .. 3 : g[k] = g[k - 1] + flag'[k - 1]
  BY <1>2
<1> HIDE DEF g
<1>5. CountedBy(g, 3)'
  BY <1>1, <1>3, <1>4 DEF CountedBy
<1> QED BY <1>5 DEF Counted

(* A turn counts its fault.                                                *)
LEMMA CountStep ==
  ASSUME TypeInv, NEW a, NEW f \in {0, 1}, Turn(a, f), NEW n \in Int, Counted(n)
  PROVE  Counted(n + f)'
<1>1. /\ i \in 0 .. N - 1 /\ i' = i + 1 /\ flag' = [flag EXCEPT ![i] = f]
      /\ flag \in [0 .. N - 1 -> {0, 1}]
  BY TurnFacts
<1>2. PICK g : CountedBy(g, n)
  BY DEF Counted
<1> DEFINE h == [k \in 0 .. i + 1 |-> IF k <= i THEN g[k] ELSE n + f]
<1>3. /\ g \in [0 .. i -> Int] /\ g[0] = 0 /\ g[i] = n
      /\ \A k \in 1 .. i : g[k] = g[k - 1] + flag[k - 1]
  BY <1>2 DEF CountedBy
<1>4. h \in [0 .. i + 1 -> Int] /\ h[0] = 0 /\ h[i + 1] = n + f
  BY <1>1, <1>3
<1>5. ASSUME NEW k \in 1 .. i + 1
      PROVE  h[k] = h[k - 1] + flag'[k - 1]
  <2>1. CASE k <= i
    <3>1. flag'[k - 1] = flag[k - 1]
      BY <1>1, <2>1, Sizes
    <3>2. h[k] = g[k] /\ h[k - 1] = g[k - 1]
      BY <1>1, <2>1
    <3> QED BY <1>1, <1>3, <2>1, <3>1, <3>2
  <2>2. CASE k = i + 1
    <3>1. flag'[k - 1] = f
      BY <1>1, <2>2, Sizes
    <3>2. h[k] = n + f /\ h[k - 1] = n
      BY <1>1, <1>3, <2>2
    <3> QED BY <3>1, <3>2
  <2> QED BY <1>1, <2>1, <2>2
<1>6. PICK c : c = h
  OBVIOUS
<1> HIDE DEF h
<1>7. CountedBy(c, n + f)'
  BY <1>1, <1>4, <1>5, <1>6 DEF CountedBy
<1> QED BY <1>7 DEF Counted

(* At the end of the string that is the number PageNum returns.            *)
LEMMA PageNumIsCount ==
  ASSUME i = N, NEW n, Counted(n)
  PROVE  PageNum = n
<1>1. PICK g : CountedBy(g, n)
  BY DEF Counted
<1> DEFINE P(f) == f = [k \in 0 .. N |-> IF k = 0 THEN 0 ELSE f[k - 1] + flag[k - 1]]
           num == CHOOSE f : P(f)
<1>2. PageNum = num[N]
  BY DEF PageNum
<1>3. /\ g \in [0 .. N -> Int] /\ g[0] = 0 /\ g[N] = n
      /\ \A k \in 1 .. N : g[k] = g[k - 1] + flag[k - 1]
  BY <1>1 DEF CountedBy
<1>4. P(g)
  <2>1. \A k \in 0 .. N : g[k] = IF k = 0 THEN 0 ELSE g[k - 1] + flag[k - 1]
    BY <1>3, Sizes
  <2> QED BY <1>3, <2>1
<1>5. P(num)
  <2> HIDE DEF P
  <2> QED BY <1>4
<1> HIDE DEF num
<1>6. \A k \in 0 .. N : num[k] = IF k = 0 THEN 0 ELSE num[k - 1] + flag[k - 1]
  BY <1>5
<1>7. /\ num[0] = g[0]
      /\ \A k \in 1 .. N : num[k - 1] = g[k - 1] => num[k] = g[k]
  BY <1>3, <1>6, Sizes
<1> HIDE DEF P
<1>8. \A k \in 0 .. N : num[k] = g[k]
  BY <1>7, SameRecursion, Sizes
<1> QED BY <1>2, <1>3, <1>8, Sizes

QueueState == [queue : [1 .. 3 -> Page], faults : Int]

(* What rejoining does to a queue of three.                                *)
LEMMA RejoinType ==
  ASSUME NEW S, NEW q \in [1 .. 3 -> S], NEW k \in 1 .. 3, NEW p \in S
  PROVE  /\ Rejoin(q, k, p) \in [1 .. 3 -> S]
         /\ Rejoin(q, k, p) =
              [l \in 1 .. 3 |-> IF l = 3 THEN p ELSE IF l < k THEN q[l] ELSE q[l + 1]]
BY Sizes DEF Rejoin

(* A queue and a number remain such.                                       *)
LEMMA QueueStepType ==
  ASSUME NEW a, NEW r \in QueueState, NEW p \in Page
  PROVE  QueueStep(a, r, p) \in QueueState
<1> DEFINE at == {l \in 1 .. 3 : r.queue[l] = p}
<1>1. r.queue \in [1 .. 3 -> Page] /\ r.faults \in Int /\ M = 3
  BY Sizes DEF QueueState
<1>2. QueueStep(a, r, p) =
        IF at = {}
          THEN [queue |-> Rejoin(r.queue, 1, p), faults |-> r.faults + 1]
        ELSE IF a = "l"
          THEN [queue |-> Rejoin(r.queue, CHOOSE l \in at : TRUE, p), faults |-> r.faults]
        ELSE r
  BY <1>1 DEF QueueStep
<1>3. Rejoin(r.queue, 1, p) \in [1 .. 3 -> Page]
  BY <1>1, RejoinType
<1>4. ASSUME at # {}
      PROVE  Rejoin(r.queue, CHOOSE l \in at : TRUE, p) \in [1 .. 3 -> Page]
  <2>1. (CHOOSE l \in at : TRUE) \in 1 .. 3
    BY <1>4
  <2> QED BY <1>1, <2>1, RejoinType
<1> HIDE DEF at
<1> QED BY <1>1, <1>2, <1>3, <1>4 DEF QueueState

(* The run of the queue is what its definition says: a function defined    *)
(* by recursion exists.                                                    *)
LEMMA QueueRunFacts ==
  ASSUME NEW a, NEW s \in [0 .. N - 1 -> Page]
  PROVE  /\ QueueRun(a, s)[3] = [queue |-> [l \in 1 .. 3 |-> s[l - 1]], faults |-> 3]
         /\ \A k \in 4 .. N :
              QueueRun(a, s)[k] = QueueStep(a, QueueRun(a, s)[k - 1], s[k - 1])
<1> DEFINE start == [queue |-> [l \in 1 .. 3 |-> s[l - 1]], faults |-> 3]
           step == [l \in 0 .. (N - 3) - 1 |->
                      [r \in QueueState |-> QueueStep(a, r, s[l + 3])]]
           P(f) == f = [k \in 3 .. N |->
                          IF k = 3 THEN start ELSE QueueStep(a, f[k - 1], s[k - 1])]
           run == CHOOSE f : P(f)
<1>1. QueueRun(a, s) = run
  BY Sizes DEF QueueRun
<1>2. start \in QueueState
  BY Sizes DEF QueueState
<1>3. step \in [0 .. (N - 3) - 1 -> [QueueState -> QueueState]]
  <2>1. ASSUME NEW l \in 0 .. (N - 3) - 1, NEW r \in QueueState
        PROVE  QueueStep(a, r, s[l + 3]) \in QueueState
    <3>1. s[l + 3] \in Page
      BY Sizes
    <3> QED BY <3>1, QueueStepType
  <2> QED BY <2>1
<1>4. N - 3 \in Nat
  BY Sizes
<1>5. PICK g : Recursive(g, N - 3, QueueState, start, step)
  <2> HIDE DEF start, step
  <2> QED BY <1>2, <1>3, <1>4, Recursion
<1>6. /\ g \in [0 .. N - 3 -> QueueState] /\ g[0] = start
      /\ \A k \in 1 .. N - 3 : g[k] = step[k - 1][g[k - 1]]
  <2> HIDE DEF start, step
  <2> QED BY <1>5 DEF Recursive
<1> HIDE DEF start
<1> DEFINE h == [k \in 3 .. N |-> g[k - 3]]
<1>7. P(h)
  <2>1. ASSUME NEW k \in 3 .. N, k # 3
        PROVE  h[k] = QueueStep(a, h[k - 1], s[k - 1])
    <3>1. /\ k - 3 \in 1 .. N - 3 /\ (k - 3) - 1 \in 0 .. (N - 3) - 1
          /\ (k - 3) - 1 \in 0 .. N - 3 /\ k - 1 \in 3 .. N
          /\ (k - 3) - 1 = (k - 1) - 3 /\ ((k - 3) - 1) + 3 = k - 1
      BY <2>1, Sizes
    <3>2. g[k - 3] = step[(k - 3) - 1][g[(k - 3) - 1]]
      BY <1>6, <3>1
    <3>3. g[(k - 3) - 1] \in QueueState
      BY <1>6, <3>1
    <3>4. g[k - 3] = QueueStep(a, g[(k - 3) - 1], s[((k - 3) - 1) + 3])
      BY <3>1, <3>2, <3>3
    <3> QED BY <3>1, <3>4
  <2>2. h[3] = start
    BY <1>6, Sizes
  <2>3. \A k \in 3 .. N : h[k] = IF k = 3 THEN start ELSE QueueStep(a, h[k - 1], s[k - 1])
    <3> HIDE DEF h
    <3> QED BY <2>1, <2>2
  <2>4. h = [k \in 3 .. N |-> h[k]]
    OBVIOUS
  <2> HIDE DEF h
  <2> QED BY <2>3, <2>4
<1>8. P(run)
  <2> HIDE DEF P, h
  <2> QED BY <1>7
<1> HIDE DEF run
<1>9. \A k \in 3 .. N : run[k] = IF k = 3 THEN start ELSE QueueStep(a, run[k - 1], s[k - 1])
  BY <1>8
<1> HIDE DEF P
<1>10. run[3] = start
  BY <1>9, Sizes
<1>11. \A k \in 4 .. N : run[k] = QueueStep(a, run[k - 1], s[k - 1])
  BY <1>9, Sizes
<1> QED BY <1>1, <1>10, <1>11 DEF start

(* o lists the frames from the oldest to the youngest, and q their pages.  *)
OrderedBy(o, q) ==
  /\ o \in [1 .. 3 -> Frame]
  /\ iBlockFlag[o[1]] > iBlockFlag[o[2]] /\ iBlockFlag[o[2]] > iBlockFlag[o[3]]
  /\ q = [l \in 1 .. 3 |-> iPageNum[o[l]]]

Ordered(q) == \E o : OrderedBy(o, q)

Run == QueueRun(ch, iPageString)

(* The queue holds the pages of the frames in the order of their ages, and *)
(* has made as many faults as the flags say.                               *)
Queued ==
  /\ Run[i].faults \in Int /\ Counted(Run[i].faults)
  /\ pc = "loop" => Ordered(Run[i].queue)

QueueInv ==
  /\ pc \in {"loop", "report"} /\ ch \in {"f", "l"} => Queued
  /\ pc = "report" => i = N

(* The order has every frame once, the first is the one replaced.          *)
LEMMA OrderFacts ==
  ASSUME TypeInv, NEW o, NEW q, OrderedBy(o, q)
  PROVE  /\ o[1] # o[2] /\ o[2] # o[3] /\ o[1] # o[3]
         /\ \A j \in Frame : \E m \in 1 .. 3 : j = o[m]
         /\ o[1] = FirstMax(iBlockFlag)
<1>1. /\ o[1] \in Frame /\ o[2] \in Frame /\ o[3] \in Frame
      /\ iBlockFlag[o[1]] > iBlockFlag[o[2]] /\ iBlockFlag[o[2]] > iBlockFlag[o[3]]
      /\ iBlockFlag \in [Frame -> Int]
  BY DEF OrderedBy, TypeInv, TypeOK
<1>2. iBlockFlag[o[1]] \in Int /\ iBlockFlag[o[2]] \in Int /\ iBlockFlag[o[3]] \in Int
  BY <1>1
<1>3. o[1] # o[2] /\ o[2] # o[3] /\ o[1] # o[3]
  BY <1>1, <1>2
<1>4. ASSUME NEW j \in Frame
      PROVE  j = o[1] \/ j = o[2] \/ j = o[3]
  BY <1>1, <1>3, Sizes
<1>5. \A j \in Frame : \E m \in 1 .. 3 : j = o[m]
  BY <1>4
<1>6. /\ FirstMax(iBlockFlag) \in Frame
      /\ \A k \in Frame : iBlockFlag[k] <= iBlockFlag[FirstMax(iBlockFlag)]
  BY <1>1, FirstMaxFacts
<1>7. FirstMax(iBlockFlag) = o[1]
  BY <1>1, <1>2, <1>4, <1>6
<1> QED BY <1>3, <1>5, <1>7

(* The frame at place m becomes the youngest, with the page p.             *)
LEMMA RejoinOrdered ==
  ASSUME TypeInv, NEW o, NEW q, OrderedBy(o, q), NEW m \in 1 .. 3, NEW p \in Page,
         iPageNum'[o[m]] = p, iBlockFlag'[o[m]] = 0,
         \A j \in Frame \ {o[m]} :
           iPageNum'[j] = iPageNum[j] /\ iBlockFlag'[j] = iBlockFlag[j] + 1
  PROVE  Ordered(Rejoin(q, m, p))'
<1>1. /\ o \in [1 .. 3 -> Frame]
      /\ iBlockFlag[o[1]] > iBlockFlag[o[2]] /\ iBlockFlag[o[2]] > iBlockFlag[o[3]]
      /\ q = [l \in 1 .. 3 |-> iPageNum[o[l]]]
      /\ iBlockFlag \in [Frame -> Nat] /\ iPageNum \in [Frame -> Page]
  BY DEF OrderedBy, TypeInv, TypeOK
<1>2. o[1] # o[2] /\ o[2] # o[3] /\ o[1] # o[3]
  BY OrderFacts
<1>3. PICK n : n = Rejoin(o, m, o[m])
  OBVIOUS
<1>4. /\ n \in [1 .. 3 -> Frame]
      /\ n = [l \in 1 .. 3 |-> IF l = 3 THEN o[m] ELSE IF l < m THEN o[l] ELSE o[l + 1]]
  BY <1>1, <1>3, RejoinType
<1>5. q \in [1 .. 3 -> Page]
  BY <1>1
<1>6. Rejoin(q, m, p) =
        [l \in 1 .. 3 |-> IF l = 3 THEN p ELSE IF l < m THEN q[l] ELSE q[l + 1]]
  BY <1>5, RejoinType
<1>7. /\ n[3] = o[m] /\ n[1] # o[m] /\ n[2] # o[m]
      /\ iBlockFlag[n[1]] > iBlockFlag[n[2]]
      /\ Rejoin(q, m, p)[3] = p
      /\ Rejoin(q, m, p)[1] = iPageNum[n[1]] /\ Rejoin(q, m, p)[2] = iPageNum[n[2]]
  <2>1. CASE m = 1
    <3>1. n[1] = o[2] /\ n[2] = o[3] /\ n[3] = o[1]
      BY <1>4, <2>1
    <3>2. Rejoin(q, m, p)[1] = q[2] /\ Rejoin(q, m, p)[2] = q[3] /\ Rejoin(q, m, p)[3] = p
      BY <1>6, <2>1
    <3> QED BY <1>1, <1>2, <2>1, <3>1, <3>2
  <2>2. CASE m = 2
    <3>1. n[1] = o[1] /\ n[2] = o[3] /\ n[3] = o[2]
      BY <1>4, <2>2
    <3>2. Rejoin(q, m, p)[1] = q[1] /\ Rejoin(q, m, p)[2] = q[3] /\ Rejoin(q, m, p)[3] = p
      BY <1>6, <2>2
    <3> QED BY <1>1, <1>2, <2>2, <3>1, <3>2
  <2>3. CASE m = 3
    <3>1. n[1] = o[1] /\ n[2] = o[2] /\ n[3] = o[3]
      BY <1>4, <2>3
    <3>2. Rejoin(q, m, p)[1] = q[1] /\ Rejoin(q, m, p)[2] = q[2] /\ Rejoin(q, m, p)[3] = p
      BY <1>6, <2>3
    <3> QED BY <1>1, <1>2, <2>3, <3>1, <3>2
  <2> QED BY <2>1, <2>2, <2>3
<1>8. n[1] \in Frame /\ n[2] \in Frame
  BY <1>4
<1>9. /\ iPageNum'[n[1]] = iPageNum[n[1]] /\ iPageNum'[n[2]] = iPageNum[n[2]]
      /\ iBlockFlag'[n[1]] = iBlockFlag[n[1]] + 1
      /\ iBlockFlag'[n[2]] = iBlockFlag[n[2]] + 1
      /\ iBlockFlag[n[1]] \in Nat /\ iBlockFlag[n[2]] \in Nat
  BY <1>1, <1>7, <1>8
<1>10. iBlockFlag'[n[1]] > iBlockFlag'[n[2]] /\ iBlockFlag'[n[2]] > iBlockFlag'[n[3]]
  BY <1>7, <1>9
<1>11. PICK r : r = Rejoin(q, m, p)
  OBVIOUS
<1>12. \A l \in 1 .. 3 : r[l] = iPageNum'[n[l]]
  BY <1>7, <1>9, <1>11
<1>13. r = [l \in 1 .. 3 |-> r[l]]
  BY <1>6, <1>11
<1>14. r = [l \in 1 .. 3 |-> iPageNum'[n[l]]]
  BY <1>12, <1>13
<1>15. OrderedBy(n, r)'
  BY <1>4, <1>10, <1>14 DEF OrderedBy
<1> QED BY <1>11, <1>15 DEF Ordered

(* How the run of the queue goes on at the reference i.                    *)
LEMMA RunStep ==
  ASSUME TypeInv, NEW a, NEW f, Turn(a, f)
  PROVE  /\ Run'[i'] = QueueStep(a, Run[i], iPageString[i])
         /\ Run' = Run
<1>1. /\ i \in 3 .. N - 1 /\ i' = i + 1 /\ iPageString' = iPageString
      /\ ch = a /\ ch' = a /\ iPageString \in [0 .. N - 1 -> Page]
  BY TurnFacts
<1>2. Run' = Run /\ Run = QueueRun(a, iPageString)
  BY <1>1 DEF Run
<1>3. \A k \in 4 .. N :
        QueueRun(a, iPageString)[k] =
          QueueStep(a, QueueRun(a, iPageString)[k - 1], iPageString[k - 1])
  BY <1>1, QueueRunFacts
<1>4. i + 1 \in 4 .. N /\ (i + 1) - 1 = i
  BY <1>1, Sizes
<1>5. Run[i + 1] = QueueStep(a, Run[i], iPageString[i])
  BY <1>2, <1>3, <1>4
<1> QED BY <1>1, <1>2, <1>5

(* The first page loaded is the oldest.                                    *)
LEMMA QueueStart ==
  ASSUME TypeInv, InitialBlock
  PROVE  Queued'
<1>1. /\ iPageNum' = [j \in Frame |-> iPageString[j]]
      /\ iBlockFlag' = [j \in Frame |-> 2 - j]
      /\ i' = 3 /\ iPageString' = iPageString /\ ch' = ch
      /\ iPageString \in [0 .. N - 1 -> Page]
  BY Sizes, StringType DEF InitialBlock, TypeInv, TypeOK
<1>2. Run'[i'] = [queue |-> [l \in 1 .. 3 |-> iPageString[l - 1]], faults |-> 3]
  BY <1>1, QueueRunFacts DEF Run
<1> DEFINE o == [l \in 1 .. 3 |-> l - 1]
<1>3. /\ o \in [1 .. 3 -> Frame] /\ o[1] = 0 /\ o[2] = 1 /\ o[3] = 2
  BY Sizes
<1>4. iBlockFlag'[0] = 2 /\ iBlockFlag'[1] = 1 /\ iBlockFlag'[2] = 0
  BY <1>1, Sizes
<1>5. Run'[i'].queue = [l \in 1 .. 3 |-> iPageNum'[o[l]]]
  BY <1>1, <1>2, <1>3
<1> HIDE DEF o
<1>6. /\ iBlockFlag'[o[1]] > iBlockFlag'[o[2]] /\ iBlockFlag'[o[2]] > iBlockFlag'[o[3]]
  BY <1>3, <1>4
<1>7. Ordered(Run[i].queue)'
  BY <1>3, <1>5, <1>6 DEF Ordered, OrderedBy
<1>8. Run'[i'].faults = 3
  BY <1>2
<1>9. Counted(Run[i].faults)'
  BY <1>8, CountStart DEF Counted, CountedBy
<1> QED BY <1>7, <1>8, <1>9 DEF Queued

(* A turn after which the run has m faults more.                           *)
LEMMA QueuedFaults ==
  ASSUME TypeInv, Queued, NEW a, NEW f \in {0, 1}, Turn(a, f),
         Run'[i'].faults = Run[i].faults + f
  PROVE  (Run[i].faults \in Int)' /\ Counted(Run[i].faults)'
<1>1. PICK n : n = Run[i].faults
  OBVIOUS
<1>2. n \in Int /\ Counted(n)
  BY <1>1 DEF Queued, Counted, CountedBy
<1>3. Counted(n + f)'
  BY <1>2, CountStep
<1>4. Run'[i'].faults = n + f
  BY <1>1
<1>5. Counted(Run[i].faults)'
  BY <1>3, <1>4 DEF Counted, CountedBy
<1> QED BY <1>2, <1>4, <1>5

(* A miss of FIFO or LRU evicts the head of the queue.                     *)
LEMMA QueueMiss ==
  ASSUME TypeInv, Queued, NEW a, Turn(a, 1), Missed,
         Load(FirstMax(iBlockFlag)), Age({FirstMax(iBlockFlag)})
  PROVE  Queued'
<1>1. /\ pc = "loop" /\ iPageString[i] \in Page /\ iPageNum \in [Frame -> Page]
      /\ iBlockFlag \in [Frame -> Int]
      /\ Run'[i'] = QueueStep(a, Run[i], iPageString[i])
  BY TurnFacts, RunStep
<1>2. PICK q : q = Run[i].queue
  OBVIOUS
<1>3. PICK o : OrderedBy(o, q)
  BY <1>1, <1>2 DEF Queued, Ordered, OrderedBy
<1>4. o[1] = FirstMax(iBlockFlag) /\ o[1] \in Frame
  BY <1>3, OrderFacts DEF OrderedBy
<1>5. \A l \in 1 .. 3 : q[l] # iPageString[i]
  BY <1>3 DEF OrderedBy, Missed
<1>6. PICK p : p = iPageString[i]
  OBVIOUS
<1>7. Run'[i'] = [queue |-> Rejoin(q, 1, p), faults |-> Run[i].faults + 1]
  <2>1. {l \in 1 .. M : q[l] = p} = {}
    BY <1>5, <1>6, Sizes
  <2> QED BY <1>1, <1>2, <1>6, <2>1 DEF QueueStep
<1>8. Run'[i'].faults = Run[i].faults + 1 /\ Run'[i'].queue = Rejoin(q, 1, p)
  BY <1>7
<1>9. (Run[i].faults \in Int)' /\ Counted(Run[i].faults)'
  BY <1>8, QueuedFaults
<1>10. /\ iPageNum'[o[1]] = p /\ iBlockFlag'[o[1]] = 0
       /\ \A j \in Frame \ {o[1]} :
            iPageNum'[j] = iPageNum[j] /\ iBlockFlag'[j] = iBlockFlag[j] + 1
  BY <1>1, <1>4, <1>6 DEF Load, Age
<1>11. Ordered(Rejoin(q, 1, p))'
  <2>1. p \in Page
    BY <1>1, <1>6
  <2> QED BY <1>3, <1>10, <2>1, RejoinOrdered
<1>12. Ordered(Run[i].queue)'
  BY <1>8, <1>11 DEF Ordered, OrderedBy
<1> QED BY <1>9, <1>12 DEF Queued

(* A hit of FIFO leaves the queue, since all frames age alike.             *)
LEMMA QueueFifoHit ==
  ASSUME TypeInv, Queued, FifoHit
  PROVE  Queued'
<1>1. Turn("f", 0) /\ ~Missed /\ iPageNum' = iPageNum
      /\ iBlockFlag' = [j \in Frame |-> iBlockFlag[j] + 1]
  BY DEF FifoHit, Age
<1>2. /\ pc = "loop" /\ iBlockFlag \in [Frame -> Int]
      /\ Run'[i'] = QueueStep("f", Run[i], iPageString[i])
  BY <1>1, TurnFacts, RunStep
<1>3. PICK q : q = Run[i].queue
  OBVIOUS
<1>4. PICK o : OrderedBy(o, q)
  BY <1>2, <1>3 DEF Queued, Ordered, OrderedBy
<1>5. PICK m \in 1 .. 3 : q[m] = iPageString[i]
  <2>1. PICK j \in Frame : iPageNum[j] = iPageString[i]
    BY <1>1 DEF Missed
  <2>2. PICK m \in 1 .. 3 : j = o[m]
    BY <1>4, OrderFacts
  <2> QED BY <1>4, <2>1, <2>2 DEF OrderedBy
<1>6. Run'[i'] = Run[i]
  <2>1. {l \in 1 .. M : q[l] = iPageString[i]} # {}
    BY <1>5, Sizes
  <2> QED BY <1>2, <1>3, <2>1 DEF QueueStep
<1>7. (Run[i].faults \in Int)' /\ Counted(Run[i].faults)'
  <2>1. Run'[i'].faults = Run[i].faults + 0
    BY <1>6 DEF Queued
  <2> QED BY <1>1, <2>1, QueuedFaults
<1>8. Ordered(q)'
  <2>1. /\ iBlockFlag'[o[1]] > iBlockFlag'[o[2]] /\ iBlockFlag'[o[2]] > iBlockFlag'[o[3]]
    <3>1. /\ o[1] \in Frame /\ o[2] \in Frame /\ o[3] \in Frame
          /\ iBlockFlag[o[1]] > iBlockFlag[o[2]] /\ iBlockFlag[o[2]] > iBlockFlag[o[3]]
      BY <1>4 DEF OrderedBy
    <3>2. iBlockFlag[o[1]] \in Int /\ iBlockFlag[o[2]] \in Int /\ iBlockFlag[o[3]] \in Int
      BY <1>2, <3>1
    <3> QED BY <1>1, <3>1, <3>2
  <2> QED BY <1>1, <1>4, <2>1 DEF Ordered, OrderedBy
<1>9. Ordered(Run[i].queue)'
  BY <1>3, <1>6, <1>8 DEF Ordered, OrderedBy
<1> QED BY <1>7, <1>9 DEF Queued

(* A hit of LRU moves the page to the end of the queue.                    *)
LEMMA QueueLruHit ==
  ASSUME FramesInv, Queued, LruHit
  PROVE  Queued'
<1>1. Turn("l", 0) /\ iPageNum' = iPageNum /\ TypeInv /\ FramesDistinct
  BY DEF LruHit, FramesInv
<1>2. PICK v \in Frame : iPageNum[v] = iPageString[i] /\ Age({v})
  BY DEF LruHit, HitFrame
<1>3. /\ pc = "loop" /\ iPageString[i] \in Page
      /\ Run'[i'] = QueueStep("l", Run[i], iPageString[i])
  BY <1>1, TurnFacts, RunStep
<1>4. PICK q : q = Run[i].queue
  OBVIOUS
<1>5. PICK p : p = iPageString[i]
  OBVIOUS
<1>6. PICK o : OrderedBy(o, q)
  BY <1>3, <1>4 DEF Queued, Ordered, OrderedBy
<1>7. PICK m \in 1 .. 3 : v = o[m]
  BY <1>1, <1>6, OrderFacts
<1>8. ASSUME NEW l \in 1 .. 3, q[l] = p
      PROVE  l = m
  <2>1. iPageNum[o[l]] = iPageNum[v] /\ o[l] \in Frame
    BY <1>2, <1>5, <1>6, <1>8 DEF OrderedBy
  <2>2. o[l] = o[m]
    BY <1>1, <1>3, <1>7, <2>1 DEF FramesDistinct
  <2> QED BY <1>1, <1>6, <2>2, OrderFacts
<1>9. q[m] = p
  BY <1>2, <1>5, <1>6, <1>7 DEF OrderedBy
<1>10. Run'[i'] = [queue |-> Rejoin(q, m, p), faults |-> Run[i].faults]
  <2>1. {l \in 1 .. M : q[l] = p} = {m}
    BY <1>8, <1>9, Sizes
  <2>2. (CHOOSE l \in {m} : TRUE) = m
    OBVIOUS
  <2> QED BY <1>3, <1>4, <1>5, <2>1, <2>2 DEF QueueStep
<1>11. Run'[i'].faults = Run[i].faults /\ Run'[i'].queue = Rejoin(q, m, p)
  BY <1>10
<1>12. (Run[i].faults \in Int)' /\ Counted(Run[i].faults)'
  <2>1. Run'[i'].faults = Run[i].faults + 0
    BY <1>11 DEF Queued
  <2> QED BY <1>1, <2>1, QueuedFaults
<1>13. Ordered(Rejoin(q, m, p))'
  <2>1. /\ iPageNum'[o[m]] = p /\ iBlockFlag'[o[m]] = 0
        /\ \A j \in Frame \ {o[m]} :
             iPageNum'[j] = iPageNum[j] /\ iBlockFlag'[j] = iBlockFlag[j] + 1
    BY <1>1, <1>2, <1>5, <1>7 DEF Age
  <2>2. p \in Page
    BY <1>3, <1>5
  <2> QED BY <1>1, <1>6, <2>1, <2>2, RejoinOrdered
<1>14. Ordered(Run[i].queue)'
  BY <1>11, <1>13 DEF Ordered, OrderedBy
<1> QED BY <1>12, <1>14 DEF Queued

(* Every step keeps the frames and the queue together.                     *)
LEMMA QueueInvStep ==
  ASSUME FramesInv, QueueInv, [Next]_vars
  PROVE  QueueInv'
<1>1. TypeInv
  BY DEF FramesInv
<1>2. CASE UNCHANGED vars \/ Exit
  <2>1. UNCHANGED <<iPageString, ch, flag, iPageNum, iBlockFlag, i, pc>>
    BY <1>2 DEF Exit, vars, blocks
  <2>2. Queued => Queued'
    BY <2>1 DEF Queued, Run, Counted, CountedBy, Ordered, OrderedBy
  <2> QED BY <2>1, <2>2 DEF QueueInv
<1>3. CASE Menu \/ Report
  <2>1. pc' \notin {"loop", "report"}
    BY <1>3 DEF Menu, Report, Goto
  <2> QED BY <2>1 DEF QueueInv
<1>4. CASE InitialBlock
  <2>1. pc' = "loop"
    BY <1>4 DEF InitialBlock, Goto
  <2> QED BY <1>1, <1>4, <2>1, QueueStart DEF QueueInv
<1>5. CASE FifoHit \/ FifoMiss \/ LruHit \/ LruMiss
  <2>1. PICK a \in {"f", "l"}, f \in {0, 1} : Turn(a, f)
    BY <1>5 DEF FifoHit, FifoMiss, LruHit, LruMiss
  <2>2. pc = "loop" /\ pc' = "loop" /\ ch = a
    BY <2>1 DEF Turn
  <2>3. Queued
    BY <2>2 DEF QueueInv
  <2>4. CASE FifoHit
    BY <1>1, <2>2, <2>3, <2>4, QueueFifoHit DEF QueueInv
  <2>5. CASE LruHit
    BY <2>2, <2>3, <2>5, QueueLruHit DEF QueueInv
  <2>6. CASE FifoMiss \/ LruMiss
    <3>1. PICK b \in {"f", "l"} :
            /\ Turn(b, 1) /\ Missed /\ Load(FirstMax(iBlockFlag))
            /\ Age({FirstMax(iBlockFlag)})
      BY <2>6 DEF FifoMiss, LruMiss
    <3> QED BY <1>1, <2>2, <2>3, <3>1, QueueMiss DEF QueueInv
  <2> QED BY <1>5, <2>4, <2>5, <2>6
<1>6. CASE OptHit \/ OptMiss
  <2>1. pc' = "loop" /\ ch' = "o"
    BY <1>6 DEF OptHit, OptMiss, Turn
  <2> QED BY <2>1 DEF QueueInv
<1>7. CASE LoopEnds
  <2>1. /\ i = N /\ pc = "loop" /\ pc' = "report"
        /\ UNCHANGED <<iPageString, ch, flag, iPageNum, iBlockFlag, i>>
    BY <1>7 DEF LoopEnds, Goto, blocks
  <2>2. Queued => Queued'
    BY <2>1 DEF Queued, Run, Counted, CountedBy
  <2> QED BY <2>1, <2>2 DEF QueueInv
<1> QED BY <1>2, <1>3, <1>4, <1>5, <1>6, <1>7 DEF Next

(* The frames and the queue agree in every reachable state.                *)
LEMMA QueueInvariance == Spec => []QueueInv
<1>1. Init => QueueInv
  BY InitType DEF QueueInv
<1>2. FramesInv /\ QueueInv /\ [Next]_vars => QueueInv'
  BY QueueInvStep
<1> QED BY <1>1, <1>2, FramesInvariance, PTL DEF Spec

(* FIFO and LRU report the faults of a queue whose head is evicted, and    *)
(* which in LRU a used page rejoins at the end.                            *)
THEOREM QueueFaultsReported == Spec => []FaultsOfQueue
<1>1. QueueInv => FaultsOfQueue
  <2> SUFFICES ASSUME QueueInv, pc = "report", ch \in {"f", "l"}
               PROVE  PageNum = QueueRun(ch, iPageString)[N].faults
    BY DEF FaultsOfQueue
  <2>1. i = N /\ Counted(Run[i].faults)
    BY DEF QueueInv, Queued
  <2>2. PageNum = Run[i].faults
    BY <2>1, PageNumIsCount
  <2> QED BY <2>1, <2>2 DEF Run
<1> QED BY <1>1, QueueInvariance, PTL

(* A set of numbers has a least one.                                       *)
LEMMA LeastFacts ==
  ASSUME NEW S \in SUBSET Nat, S # {}
  PROVE  Least(S) \in S /\ \A y \in S : Least(S) <= y
<1>1. \E x \in S : \A y \in S : x <= y
  BY LeastElement
<1> QED BY <1>1 DEF Least

Numbers == [PageSet -> Nat]

(* n is one fault more than after the best replacement of a page in S.     *)
BestOf(n, G, S, p) ==
  /\ n \in Nat
  /\ \E v \in S : n = 1 + G[(S \ {v}) \cup {p}]
  /\ \A v \in S : n <= 1 + G[(S \ {v}) \cup {p}]

(* What a reference to p costs: nothing or the best replacement.           *)
LEMMA FewestStepFacts ==
  ASSUME NEW G \in Numbers, NEW p \in Page, NEW S \in PageSet
  PROVE  /\ FewestStep(G, p)[S] \in Nat
         /\ p \in S => FewestStep(G, p)[S] = G[S]
         /\ p \notin S => BestOf(FewestStep(G, p)[S], G, S, p)
<1> DEFINE After == {G[(S \ {v}) \cup {p}] : v \in S}
<1>1. FewestStep(G, p)[S] = IF p \in S THEN G[S] ELSE 1 + Least(After)
  BY DEF FewestStep
<1>2. \A v \in S : (S \ {v}) \cup {p} \in PageSet
  BY DEF PageSet
<1>3. \A v \in S : G[(S \ {v}) \cup {p}] \in Nat
  BY <1>2 DEF Numbers
<1>4. After \in SUBSET Nat /\ After # {}
  BY <1>3 DEF PageSet
<1>5. Least(After) \in After /\ \A y \in After : Least(After) <= y
  <2> HIDE DEF After
  <2> QED BY <1>4, LeastFacts
<1>6. G[S] \in Nat /\ Least(After) \in Nat
  <2>1. G[S] \in Nat
    BY DEF Numbers
  <2> HIDE DEF After
  <2> QED BY <1>4, <1>5, <2>1
<1>7. PICK v \in S : Least(After) = G[(S \ {v}) \cup {p}]
  BY <1>5
<1>8. \A w \in S : Least(After) <= G[(S \ {w}) \cup {p}]
  BY <1>5
<1> HIDE DEF After
<1>9. CASE p \in S
  BY <1>1, <1>6, <1>9
<1>10. CASE p \notin S
  <2>1. FewestStep(G, p)[S] = 1 + Least(After)
    BY <1>1, <1>10
  <2>2. \A w \in S : FewestStep(G, p)[S] <= 1 + G[(S \ {w}) \cup {p}]
    BY <1>3, <1>6, <1>8, <2>1
  <2>3. FewestStep(G, p)[S] = 1 + G[(S \ {v}) \cup {p}]
    BY <1>7, <2>1
  <2>4. \E w \in S : FewestStep(G, p)[S] = 1 + G[(S \ {w}) \cup {p}]
    BY <2>3
  <2>5. FewestStep(G, p)[S] \in Nat
    BY <1>6, <2>1
  <2> QED BY <1>10, <2>2, <2>4, <2>5 DEF BestOf
<1> QED BY <1>9, <1>10

(* The step yields numbers for all sets of pages.                          *)
LEMMA FewestStepType ==
  ASSUME NEW G \in Numbers, NEW p \in Page
  PROVE  FewestStep(G, p) \in Numbers
<1>1. \A S \in PageSet : FewestStep(G, p)[S] \in Nat
  BY FewestStepFacts
<1>2. FewestStep(G, p) = [S \in PageSet |-> FewestStep(G, p)[S]]
  BY DEF FewestStep
<1> QED BY <1>1, <1>2 DEF Numbers

(* The fewest faults are what their definition says.                       *)
LEMMA FewestFacts ==
  ASSUME NEW s \in [0 .. N - 1 -> Page]
  PROVE  /\ Fewest(s) \in [3 .. N -> Numbers]
         /\ \A S \in PageSet : Fewest(s)[N][S] = 0
         /\ \A k \in 3 .. N - 1 : Fewest(s)[k] = FewestStep(Fewest(s)[k + 1], s[k])
<1> DEFINE zero == [S \in PageSet |-> 0]
           step == [l \in 0 .. (N - 3) - 1 |->
                      [G \in Numbers |-> FewestStep(G, s[(N - 1) - l])]]
           P(f) == f = [k \in 3 .. N |->
                          IF k = N THEN zero ELSE FewestStep(f[k + 1], s[k])]
           run == CHOOSE f : P(f)
<1>1. Fewest(s) = run
  BY Sizes DEF Fewest
<1>2. zero \in Numbers
  BY DEF Numbers
<1>3. step \in [0 .. (N - 3) - 1 -> [Numbers -> Numbers]]
  <2>1. ASSUME NEW l \in 0 .. (N - 3) - 1, NEW G \in Numbers
        PROVE  FewestStep(G, s[(N - 1) - l]) \in Numbers
    <3>1. s[(N - 1) - l] \in Page
      BY Sizes
    <3> QED BY <3>1, FewestStepType
  <2> QED BY <2>1
<1>4. N - 3 \in Nat
  BY Sizes
<1>5. PICK g : Recursive(g, N - 3, Numbers, zero, step)
  <2> HIDE DEF zero, step
  <2> QED BY <1>2, <1>3, <1>4, Recursion
<1>6. /\ g \in [0 .. N - 3 -> Numbers] /\ g[0] = zero
      /\ \A k \in 1 .. N - 3 : g[k] = step[k - 1][g[k - 1]]
  <2> HIDE DEF zero, step
  <2> QED BY <1>5 DEF Recursive
<1>7. \A S \in PageSet : zero[S] = 0
  OBVIOUS
<1> HIDE DEF zero
<1> DEFINE h == [k \in 3 .. N |-> g[N - k]]
<1>8. P(h)
  <2>1. ASSUME NEW k \in 3 .. N, k # N
        PROVE  h[k] = FewestStep(h[k + 1], s[k])
    <3>1. /\ N - k \in 1 .. N - 3 /\ (N - k) - 1 \in 0 .. (N - 3) - 1
          /\ (N - k) - 1 \in 0 .. N - 3 /\ k + 1 \in 3 .. N
          /\ (N - k) - 1 = N - (k + 1) /\ (N - 1) - ((N - k) - 1) = k
      BY <2>1, Sizes
    <3>2. g[N - k] = step[(N - k) - 1][g[(N - k) - 1]]
      BY <1>6, <3>1
    <3>3. g[(N - k) - 1] \in Numbers
      BY <1>6, <3>1
    <3>4. g[N - k] = FewestStep(g[(N - k) - 1], s[(N - 1) - ((N - k) - 1)])
      BY <3>1, <3>2, <3>3
    <3> QED BY <3>1, <3>4
  <2>2. h[N] = zero
    BY <1>6, Sizes
  <2>3. \A k \in 3 .. N : h[k] = IF k = N THEN zero ELSE FewestStep(h[k + 1], s[k])
    <3> HIDE DEF h
    <3> QED BY <2>1, <2>2
  <2>4. h = [k \in 3 .. N |-> h[k]]
    OBVIOUS
  <2> HIDE DEF h
  <2> QED BY <2>3, <2>4
<1>9. P(run)
  <2> HIDE DEF P, h
  <2> QED BY <1>8
<1> HIDE DEF run
<1>10. \A k \in 3 .. N : run[k] = IF k = N THEN zero ELSE FewestStep(run[k + 1], s[k])
  BY <1>9
<1>11. run[N] = zero
  <2>1. N \in 3 .. N
    BY Sizes
  <2> HIDE DEF P
  <2> QED BY <1>10, <2>1
<1>12. ASSUME NEW k \in 3 .. N - 1
       PROVE  run[k] = FewestStep(run[k + 1], s[k])
  <2>1. k \in 3 .. N /\ k # N
    BY Sizes
  <2> HIDE DEF P
  <2> QED BY <1>10, <2>1
<1>13. \A k \in 3 .. N : run[k] \in Numbers
  <2> DEFINE D == {l \in 0 .. N - 3 : run[N - l] \in Numbers}
  <2>1. 0 \in D
    BY <1>2, <1>4, <1>11, Sizes
  <2>2. ASSUME NEW l \in 0 .. (N - 3) - 1, l \in D
        PROVE  l + 1 \in D
    <3>1. /\ N - (l + 1) \in 3 .. N - 1 /\ (N - (l + 1)) + 1 = N - l
          /\ l + 1 \in 0 .. N - 3 /\ N - (l + 1) \in 0 .. N - 1
      BY Sizes
    <3>2. run[N - l] \in Numbers
      BY <2>2
    <3>3. run[N - (l + 1)] = FewestStep(run[N - l], s[N - (l + 1)])
      BY <1>12, <3>1
    <3>4. s[N - (l + 1)] \in Page
      BY <3>1
    <3>5. run[N - (l + 1)] \in Numbers
      BY <3>2, <3>3, <3>4, FewestStepType
    <3> QED BY <3>1, <3>5
  <2>3. 0 .. N - 3 \subseteq D
    <3> HIDE DEF D
    <3> QED BY <1>4, <2>1, <2>2, InductionUpTo
  <2>4. ASSUME NEW k \in 3 .. N
        PROVE  run[k] \in Numbers
    <3>1. N - k \in 0 .. N - 3 /\ N - (N - k) = k
      BY Sizes
    <3> QED BY <2>3, <3>1
  <2> QED BY <2>4
<1>14. run \in [3 .. N -> Numbers]
  <2>1. run = [k \in 3 .. N |-> IF k = N THEN zero ELSE FewestStep(run[k + 1], s[k])]
    BY <1>9
  <2> HIDE DEF P
  <2> QED BY <1>10, <1>13, <2>1
<1> QED BY <1>1, <1>7, <1>11, <1>12, <1>14

(* To hold b instead of a costs one fault at most.                         *)
Close(G) ==
  \A X \in SUBSET Page : \A a, b \in Page \ X : G[X \cup {b}] <= G[X \cup {a}] + 1

(* To hold b is at least as good as to hold a.                             *)
Prefers(G, a, b) ==
  \A X \in SUBSET Page : a \notin X /\ b \notin X => G[X \cup {b}] <= G[X \cup {a}]

(* A page added to a set of pages.                                         *)
LEMMA Together ==
  ASSUME NEW X \in SUBSET Page, NEW a \in Page
  PROVE  X \cup {a} \in PageSet
BY DEF PageSet

(* The page referenced is held with X, or it is the one of a that is not.  *)
LEMMA HitX ==
  ASSUME NEW G \in Numbers, NEW r \in Page, NEW X \in SUBSET Page, NEW a \in Page,
         r \in X \cup {a}
  PROVE  FewestStep(G, r)[X \cup {a}] = G[X \cup {a}]
<1> DEFINE S == X \cup {a}
<1>1. S \in PageSet /\ r \in S
  BY Together
<1> HIDE DEF S
<1>2. FewestStep(G, r)[S] = G[S]
  BY <1>1, FewestStepFacts
<1> QED BY <1>2 DEF S

(* The page is not held.                                                   *)
LEMMA MissX ==
  ASSUME NEW G \in Numbers, NEW r \in Page, NEW X \in SUBSET Page, NEW a \in Page,
         r \notin X, r # a
  PROVE  BestOf(FewestStep(G, r)[X \cup {a}], G, X \cup {a}, r)
<1> DEFINE S == X \cup {a}
<1>1. S \in PageSet /\ r \notin S
  BY Together
<1> HIDE DEF S
<1>2. BestOf(FewestStep(G, r)[S], G, S, r)
  BY <1>1, FewestStepFacts
<1> QED BY <1>2 DEF S

(* Whoever holds b, the page referenced, did not do worse.                 *)
LEMMA HitB ==
  ASSUME NEW G \in Numbers, Close(G), NEW X \in SUBSET Page,
         NEW a \in Page \ X, NEW b \in Page \ X, a # b
  PROVE  FewestStep(G, b)[X \cup {b}] <= FewestStep(G, b)[X \cup {a}]
<1> DEFINE H == FewestStep(G, b)
<1> SUFFICES H[X \cup {b}] <= H[X \cup {a}]
  OBVIOUS
<1>1. H[X \cup {b}] = G[X \cup {b}] /\ X \cup {b} \in PageSet /\ X \cup {a} \in PageSet
  BY HitX, Together
<1>2. BestOf(H[X \cup {a}], G, X \cup {a}, b)
  BY MissX
<1>3. PICK v \in X \cup {a} : H[X \cup {a}] = 1 + G[((X \cup {a}) \ {v}) \cup {b}]
  BY <1>2 DEF BestOf
<1>4. G[X \cup {b}] \in Nat
  BY <1>1 DEF Numbers
<1>5. CASE v = a
  <2>1. ((X \cup {a}) \ {v}) \cup {b} = X \cup {b}
    BY <1>5
  <2> HIDE DEF H
  <2> QED BY <1>1, <1>3, <1>4, <2>1
<1>6. CASE v # a
  <2> DEFINE Y == (X \ {v}) \cup {b}
  <2>1. v \in X /\ v \in Page
    BY <1>6
  <2>2. Y \in SUBSET Page /\ a \in Page \ Y /\ v \in Page \ Y
    BY <2>1
  <2>3. Y \cup {v} = X \cup {b} /\ Y \cup {a} = ((X \cup {a}) \ {v}) \cup {b}
    BY <1>6, <2>1
  <2>4. Y \cup {a} \in PageSet
    BY <2>2, Together
  <2> HIDE DEF Y
  <2>5. G[Y \cup {v}] <= G[Y \cup {a}] + 1
    BY <2>2 DEF Close
  <2>6. G[Y \cup {a}] \in Nat
    BY <2>4 DEF Numbers
  <2> HIDE DEF H
  <2> QED BY <1>1, <1>3, <1>4, <2>3, <2>5, <2>6
<1> QED BY <1>5, <1>6

(* When both miss, what replaces a page from X or the page itself for a    *)
(* can replace the same or the page itself for b.                          *)
LEMMA MissBoth ==
  ASSUME NEW G \in Numbers, NEW r \in Page, NEW X \in SUBSET Page,
         NEW a \in Page \ X, NEW b \in Page \ X, r \notin X, r # a, r # b
  PROVE  \/ FewestStep(G, r)[X \cup {b}] <= FewestStep(G, r)[X \cup {a}]
         \/ \E Y \in SUBSET Page :
              /\ a \in Page \ Y /\ b \in Page \ Y
              /\ FewestStep(G, r)[X \cup {a}] = 1 + G[Y \cup {a}]
              /\ FewestStep(G, r)[X \cup {b}] <= 1 + G[Y \cup {b}]
<1> DEFINE H == FewestStep(G, r)
<1>1. BestOf(H[X \cup {a}], G, X \cup {a}, r) /\ BestOf(H[X \cup {b}], G, X \cup {b}, r)
  BY MissX
<1>3. PICK v \in X \cup {a} : H[X \cup {a}] = 1 + G[((X \cup {a}) \ {v}) \cup {r}]
  BY <1>1 DEF BestOf
<1>4. \A w \in X \cup {b} : H[X \cup {b}] <= 1 + G[((X \cup {b}) \ {w}) \cup {r}]
  BY <1>1 DEF BestOf
<1> HIDE DEF H
<1>5. CASE v = a
  <2>1. /\ ((X \cup {a}) \ {v}) \cup {r} = X \cup {r}
        /\ ((X \cup {b}) \ {b}) \cup {r} = X \cup {r}
    BY <1>5
  <2>2. H[X \cup {b}] <= H[X \cup {a}]
    BY <1>3, <1>4, <2>1
  <2> QED BY <2>2 DEF H
<1>6. CASE v # a
  <2>1. v \in X /\ v # b
    BY <1>6
  <2> DEFINE Y == (X \ {v}) \cup {r}
  <2>2. Y \in SUBSET Page /\ a \in Page \ Y /\ b \in Page \ Y
    BY <2>1
  <2>3. /\ ((X \cup {a}) \ {v}) \cup {r} = Y \cup {a}
        /\ ((X \cup {b}) \ {v}) \cup {r} = Y \cup {b}
    BY <1>6, <2>1
  <2>4. H[X \cup {a}] = 1 + G[Y \cup {a}] /\ H[X \cup {b}] <= 1 + G[Y \cup {b}]
    BY <1>3, <1>4, <2>1, <2>3
  <2> HIDE DEF Y
  <2> QED BY <2>2, <2>4 DEF H
<1> QED BY <1>5, <1>6

(* The numbers before and after a step.                                    *)
LEMMA StepNat ==
  ASSUME NEW G \in Numbers, NEW r \in Page, NEW X \in SUBSET Page, NEW a \in Page
  PROVE  FewestStep(G, r)[X \cup {a}] \in Nat /\ G[X \cup {a}] \in Nat
<1>1. X \cup {a} \in PageSet
  BY Together
<1>2. FewestStep(G, r) \in Numbers
  BY FewestStepType
<1> QED BY <1>1, <1>2 DEF Numbers

(* The bound of one fault holds one reference earlier.                     *)
LEMMA CloseStep ==
  ASSUME NEW G \in Numbers, NEW r \in Page, Close(G)
  PROVE  Close(FewestStep(G, r))
<1> DEFINE H == FewestStep(G, r)
<1> SUFFICES ASSUME NEW X \in SUBSET Page, NEW a \in Page \ X, NEW b \in Page \ X
             PROVE  H[X \cup {b}] <= H[X \cup {a}] + 1
  BY DEF Close
<1>1. /\ H[X \cup {b}] \in Nat /\ H[X \cup {a}] \in Nat
      /\ G[X \cup {b}] \in Nat /\ G[X \cup {a}] \in Nat
  BY StepNat
<1>2. G[X \cup {b}] <= G[X \cup {a}] + 1
  BY DEF Close
<1>3. CASE a = b
  <2> HIDE DEF H
  <2> QED BY <1>1, <1>3
<1>4. CASE r \in X
  <2>1. H[X \cup {a}] = G[X \cup {a}] /\ H[X \cup {b}] = G[X \cup {b}]
    BY <1>4, HitX
  <2> HIDE DEF H
  <2> QED BY <1>1, <1>2, <2>1
<1>5. CASE r = a /\ a # b
  <2>1. H[X \cup {a}] = G[X \cup {a}]
    BY <1>5, HitX
  <2>2. BestOf(H[X \cup {b}], G, X \cup {b}, r)
    BY <1>5, MissX
  <2>3. H[X \cup {b}] <= 1 + G[((X \cup {b}) \ {b}) \cup {r}]
    BY <2>2 DEF BestOf
  <2>4. ((X \cup {b}) \ {b}) \cup {r} = X \cup {a}
    BY <1>5
  <2> HIDE DEF H
  <2> QED BY <1>1, <2>1, <2>3, <2>4
<1>6. CASE r = b /\ a # b
  <2>1. H[X \cup {b}] <= H[X \cup {a}]
    BY <1>6, HitB
  <2> HIDE DEF H
  <2> QED BY <1>1, <2>1
<1>7. CASE r \notin X /\ r # a /\ r # b
  <2>1. CASE H[X \cup {b}] <= H[X \cup {a}]
    <3> HIDE DEF H
    <3> QED BY <1>1, <2>1
  <2>2. ASSUME NEW Y \in SUBSET Page, a \in Page \ Y, b \in Page \ Y,
               H[X \cup {a}] = 1 + G[Y \cup {a}], H[X \cup {b}] <= 1 + G[Y \cup {b}]
        PROVE  H[X \cup {b}] <= H[X \cup {a}] + 1
    <3>1. G[Y \cup {b}] <= G[Y \cup {a}] + 1
      BY <2>2 DEF Close
    <3>2. G[Y \cup {b}] \in Nat /\ G[Y \cup {a}] \in Nat
      BY StepNat
    <3> HIDE DEF H
    <3> QED BY <1>1, <2>2, <3>1, <3>2
  <2>3. \/ H[X \cup {b}] <= H[X \cup {a}]
       \/ \E Y \in SUBSET Page :
            /\ a \in Page \ Y /\ b \in Page \ Y
            /\ H[X \cup {a}] = 1 + G[Y \cup {a}]
            /\ H[X \cup {b}] <= 1 + G[Y \cup {b}]
    BY <1>7, MissBoth
  <2> HIDE DEF H
  <2> QED BY <2>1, <2>2, <2>3
<1> QED BY <1>3, <1>4, <1>5, <1>6, <1>7

(* So does the preference for the page that is used first.                 *)
LEMMA PrefersStep ==
  ASSUME NEW G \in Numbers, NEW r \in Page, Close(G),
         NEW a \in Page, NEW b \in Page, a # b, r # a, r = b \/ Prefers(G, a, b)
  PROVE  Prefers(FewestStep(G, r), a, b)
<1> DEFINE H == FewestStep(G, r)
<1> SUFFICES ASSUME NEW X \in SUBSET Page, a \notin X, b \notin X
             PROVE  H[X \cup {b}] <= H[X \cup {a}]
  BY DEF Prefers
<1>1. CASE r = b
  <2>1. a \in Page \ X /\ b \in Page \ X
    OBVIOUS
  <2> QED BY <1>1, <2>1, HitB
<1>2. CASE r # b /\ r \in X
  <2>1. H[X \cup {a}] = G[X \cup {a}]
    BY <1>2, HitX
  <2>2. H[X \cup {b}] = G[X \cup {b}]
    BY <1>2, HitX
  <2> HIDE DEF H
  <2> QED BY <1>2, <2>1, <2>2 DEF Prefers
<1>3. CASE r # b /\ r \notin X
  <2>1. ASSUME NEW Y \in SUBSET Page, a \in Page \ Y, b \in Page \ Y,
               H[X \cup {a}] = 1 + G[Y \cup {a}], H[X \cup {b}] <= 1 + G[Y \cup {b}]
        PROVE  H[X \cup {b}] <= H[X \cup {a}]
    <3>1. G[Y \cup {b}] <= G[Y \cup {a}]
      BY <1>3, <2>1 DEF Prefers
    <3>2. /\ G[Y \cup {b}] \in Nat /\ G[Y \cup {a}] \in Nat
          /\ H[X \cup {b}] \in Nat
      BY StepNat
    <3> HIDE DEF H
    <3> QED BY <2>1, <3>1, <3>2
  <2>2. a \in Page \ X /\ b \in Page \ X
    OBVIOUS
  <2>3. \/ H[X \cup {b}] <= H[X \cup {a}]
       \/ \E Y \in SUBSET Page :
            /\ a \in Page \ Y /\ b \in Page \ Y
            /\ H[X \cup {a}] = 1 + G[Y \cup {a}]
            /\ H[X \cup {b}] <= 1 + G[Y \cup {b}]
    BY <1>3, <2>2, MissBoth
  <2> HIDE DEF H
  <2> QED BY <2>1, <2>3
<1> QED BY <1>1, <1>2, <1>3

(* From the reference k on, a is not used before b is.                     *)
UsedFirst(s, a, b, k) ==
  \A j \in k .. N - 1 : s[j] = a => \E l \in k .. j : s[l] = b

(* From the reference k on, one page more or less costs one fault, and the *)
(* page that is used first is the one to hold.                             *)
Exchanges(s, k) ==
  /\ Close(Fewest(s)[k])
  /\ \A a, b \in Page : a # b /\ UsedFirst(s, a, b, k) => Prefers(Fewest(s)[k], a, b)

(* At the end nothing costs anything.                                      *)
LEMMA ExchangesAtEnd ==
  ASSUME NEW s \in [0 .. N - 1 -> Page]
  PROVE  Exchanges(s, N)
<1>1. \A S \in PageSet : Fewest(s)[N][S] = 0
  BY FewestFacts
<1>2. ASSUME NEW X \in SUBSET Page, NEW a \in Page
      PROVE  Fewest(s)[N][X \cup {a}] = 0
  BY <1>1, Together
<1>3. ASSUME NEW X \in SUBSET Page, NEW a \in Page, NEW b \in Page
      PROVE  /\ Fewest(s)[N][X \cup {b}] <= Fewest(s)[N][X \cup {a}]
             /\ Fewest(s)[N][X \cup {b}] <= Fewest(s)[N][X \cup {a}] + 1
  <2>1. Fewest(s)[N][X \cup {a}] = 0 /\ Fewest(s)[N][X \cup {b}] = 0
    BY <1>2
  <2> QED BY <2>1
<1>4. Close(Fewest(s)[N])
  BY <1>3 DEF Close
<1>5. \A a, b \in Page : Prefers(Fewest(s)[N], a, b)
  BY <1>3 DEF Prefers
<1> QED BY <1>4, <1>5 DEF Exchanges

(* What holds from the next reference on holds from this one on.           *)
LEMMA ExchangesBefore ==
  ASSUME NEW s \in [0 .. N - 1 -> Page], NEW k \in 3 .. N - 1, Exchanges(s, k + 1)
  PROVE  Exchanges(s, k)
<1> DEFINE G == Fewest(s)[k + 1]
           r == s[k]
<1>1. /\ k + 1 \in 3 .. N /\ r \in Page /\ k \in Int /\ k < N /\ k >= 3
  BY Sizes
<1>2. G \in Numbers /\ Fewest(s)[k] = FewestStep(G, r)
  BY <1>1, FewestFacts
<1>3. Close(G)
  BY DEF Exchanges
<1>4. ASSUME NEW a \in Page, NEW b \in Page, a # b, UsedFirst(s, a, b, k)
      PROVE  r # a /\ (r = b \/ Prefers(G, a, b))
  <2>1. r # a
    <3>1. r = a => \E l \in k .. k : s[l] = b
      BY <1>1, <1>4, Sizes DEF UsedFirst
    <3> QED BY <1>1, <1>4, <3>1
  <2>2. CASE r # b
    <3>1. UsedFirst(s, a, b, k + 1)
      <4> SUFFICES ASSUME NEW j \in (k + 1) .. N - 1, s[j] = a
                   PROVE  \E l \in (k + 1) .. j : s[l] = b
        BY DEF UsedFirst
      <4>1. j \in k .. N - 1
        BY <1>1, Sizes
      <4>2. PICK l \in k .. j : s[l] = b
        BY <1>4, <4>1 DEF UsedFirst
      <4>3. l # k
        BY <2>2, <4>2
      <4> QED BY <1>1, <4>1, <4>2, <4>3
    <3>2. Prefers(G, a, b)
      BY <1>4, <3>1 DEF Exchanges
    <3> QED BY <2>1, <3>2
  <2> QED BY <2>1, <2>2
<1> HIDE DEF G, r
<1>5. Close(FewestStep(G, r))
  BY <1>1, <1>2, <1>3, CloseStep
<1>6. ASSUME NEW a \in Page, NEW b \in Page, a # b, UsedFirst(s, a, b, k)
      PROVE  Prefers(FewestStep(G, r), a, b)
  BY <1>1, <1>2, <1>3, <1>4, <1>6, PrefersStep
<1> QED BY <1>2, <1>5, <1>6 DEF Exchanges

(* It holds from every reference on.                                       *)
LEMMA ExchangesAlways ==
  ASSUME NEW s \in [0 .. N - 1 -> Page], NEW k \in 3 .. N
  PROVE  Exchanges(s, k)
<1> DEFINE D == {l \in 0 .. N - 3 : Exchanges(s, N - l)}
<1>1. 0 \in D
  BY ExchangesAtEnd, Sizes
<1>2. ASSUME NEW l \in 0 .. (N - 3) - 1, l \in D
      PROVE  l + 1 \in D
  <2>1. /\ N - (l + 1) \in 3 .. N - 1 /\ (N - (l + 1)) + 1 = N - l
        /\ l + 1 \in 0 .. N - 3
    BY Sizes
  <2>2. Exchanges(s, (N - (l + 1)) + 1)
    BY <1>2, <2>1
  <2>3. Exchanges(s, N - (l + 1))
    BY <2>1, <2>2, ExchangesBefore
  <2> QED BY <2>1, <2>3
<1>3. 0 .. N - 3 \subseteq D
  <2>1. N - 3 \in Nat
    BY Sizes
  <2> HIDE DEF D
  <2> QED BY <1>1, <1>2, <2>1, InductionUpTo
<1>4. N - k \in 0 .. N - 3 /\ N - (N - k) = k
  BY Sizes
<1> QED BY <1>3, <1>4

-----------------------------------------------------------------------------
(* The pages in memory.                                                    *)
Held == {iPageNum[j] : j \in Frame}

(* The faults so far and the fewest that remain are the fewest in all.     *)
Spent(n) ==
  n + Fewest(iPageString)[i][Held] = 3 + Fewest(iPageString)[3][{iPageString[k] : k \in Frame}]

OptInv ==
  /\ pc \in {"loop", "report"} /\ ch = "o" => \E n \in Int : Counted(n) /\ Spent(n)
  /\ pc = "report" => i = N

(* At the first turn nothing but the first three faults is spent.          *)
LEMMA OptStart ==
  ASSUME TypeInv, InitialBlock
  PROVE  \E n \in Int : (Counted(n) /\ Spent(n))'
<1>1. /\ iPageNum' = [j \in Frame |-> iPageString[j]]
      /\ i' = 3 /\ iPageString' = iPageString
  BY Sizes DEF InitialBlock
<1>2. Held' = {iPageString'[k] : k \in Frame}
  BY <1>1 DEF Held
<1>3. Spent(3)'
  BY <1>1, <1>2 DEF Spent
<1> QED BY <1>3, CountStart

(* A hit spends nothing.                                                   *)
LEMMA OptHitStep ==
  ASSUME TypeInv, OptHit, NEW n \in Int, Counted(n), Spent(n)
  PROVE  (Counted(n) /\ Spent(n))'
<1> DEFINE s == iPageString
<1>1. Turn("o", 0) /\ ~Missed /\ iPageNum' = iPageNum
  BY DEF OptHit, blocks
<1>2. /\ i \in 3 .. N - 1 /\ i' = i + 1 /\ iPageString' = iPageString
      /\ s \in [0 .. N - 1 -> Page] /\ s[i] \in Page /\ iPageNum \in [Frame -> Page]
  BY <1>1, TurnFacts
<1>3. Held \in PageSet /\ s[i] \in Held /\ Held' = Held
  BY <1>1, <1>2 DEF Held, Missed, PageSet
<1>4. i + 1 \in 3 .. N
  BY <1>2, Sizes
<1>5. /\ Fewest(s)[i + 1] \in Numbers
      /\ Fewest(s)[i] = FewestStep(Fewest(s)[i + 1], s[i])
  <2> HIDE DEF s
  <2> QED BY <1>2, <1>4, FewestFacts
<1>6. Fewest(s)[i][Held] = Fewest(s)[i + 1][Held]
  BY <1>2, <1>3, <1>5, FewestStepFacts
<1>7. Spent(n)'
  BY <1>2, <1>3, <1>6 DEF Spent
<1>8. Counted(n + 0)'
  BY <1>1, CountStep
<1> QED BY <1>7, <1>8

(* Of the pages in S, v is the one that is used last.                      *)
UsedLast(s, v, S, k) == \A w \in S : w # v => UsedFirst(s, v, w, k)

(* To replace v at the reference k costs no more than anything else.       *)
CheapestIs(s, v, S, k) ==
  Fewest(s)[k][S] = 1 + Fewest(s)[k + 1][(S \ {v}) \cup {s[k]}]

(* The page that is used last is the best to replace.                      *)
LEMMA BestVictim ==
  ASSUME NEW s \in [0 .. N - 1 -> Page], NEW k \in 3 .. N - 1,
         NEW S \in PageSet, s[k] \notin S, NEW v \in S,
         UsedLast(s, v, S, k + 1)
  PROVE  CheapestIs(s, v, S, k)
<1> DEFINE G == Fewest(s)[k + 1]
           r == s[k]
<1>1. k + 1 \in 3 .. N /\ r \in Page
  BY Sizes
<1>2. G \in Numbers /\ Fewest(s)[k] = FewestStep(G, r)
  BY <1>1, FewestFacts
<1>3. Exchanges(s, k + 1)
  BY <1>1, ExchangesAlways
<1>4. \A w \in S : w # v => Prefers(G, v, w)
  BY <1>3 DEF Exchanges, PageSet, UsedLast
<1> HIDE DEF G
<1>5. BestOf(FewestStep(G, r)[S], G, S, r)
  BY <1>1, <1>2, FewestStepFacts
<1>6. PICK w \in S : FewestStep(G, r)[S] = 1 + G[(S \ {w}) \cup {r}]
  BY <1>5 DEF BestOf
<1>7. FewestStep(G, r)[S] <= 1 + G[(S \ {v}) \cup {r}]
  BY <1>5 DEF BestOf
<1>8. (S \ {w}) \cup {r} \in PageSet /\ (S \ {v}) \cup {r} \in PageSet
  BY <1>1 DEF PageSet
<1>9. G[(S \ {w}) \cup {r}] \in Nat /\ G[(S \ {v}) \cup {r}] \in Nat
  BY <1>2, <1>8 DEF Numbers
<1>10. G[(S \ {v}) \cup {r}] <= G[(S \ {w}) \cup {r}]
  <2>1. CASE w = v
    BY <1>9, <2>1
  <2>2. CASE w # v
    <3> DEFINE X == (S \ {v, w}) \cup {r}
    <3>1. X \in SUBSET Page /\ v \notin X /\ w \notin X
      BY <1>1 DEF PageSet
    <3>2. X \cup {w} = (S \ {v}) \cup {r} /\ X \cup {v} = (S \ {w}) \cup {r}
      BY <2>2
    <3> HIDE DEF X
    <3>3. G[X \cup {w}] <= G[X \cup {v}]
      BY <1>4, <2>2, <3>1 DEF Prefers
    <3> QED BY <3>2, <3>3
  <2> QED BY <2>1, <2>2
<1>11. FewestStep(G, r)[S] = 1 + G[(S \ {v}) \cup {r}]
  <2> HIDE DEF r
  <2> QED BY <1>6, <1>7, <1>9, <1>10
<1> QED BY <1>2, <1>11 DEF G, CheapestIs

(* A miss spends one fault, and the rest is no more than it has to be.     *)
LEMMA OptMissStep ==
  ASSUME FramesInv, OptMiss, NEW n \in Int, Counted(n), Spent(n)
  PROVE  (Counted(n + 1) /\ Spent(n + 1))'
<1> DEFINE nextUse == [j \in Frame |-> allocate(iPageNum[j], i + 1)]
           loc == FirstMax(nextUse)
<1>1. Turn("o", 1) /\ Missed /\ Load(loc) /\ TypeInv /\ FramesDistinct
  BY DEF OptMiss, FramesInv
<1>2. /\ i \in 3 .. N - 1 /\ i' = i + 1 /\ iPageString' = iPageString /\ pc = "loop"
      /\ iPageString \in [0 .. N - 1 -> Page] /\ iPageString[i] \in Page
      /\ iPageNum \in [Frame -> Page]
  BY <1>1, TurnFacts
<1>3. i + 1 \in 3 .. N /\ i + 1 \in 0 .. N
  BY <1>2, Sizes
<1>4. ASSUME NEW j \in Frame
      PROVE  nextUse[j] \in (i + 1) .. N
  BY <1>3, AllocateFacts
<1>5. nextUse \in [Frame -> Int]
  BY <1>3, <1>4
<1>6. loc \in Frame /\ \A j \in Frame : nextUse[j] <= nextUse[loc]
  <2> HIDE DEF nextUse
  <2> QED BY <1>5, FirstMaxFacts
<1> HIDE DEF loc
<1>7. ASSUME NEW j \in Frame
      PROVE  UsedFirst(iPageString, iPageNum[loc], iPageNum[j], i + 1)
  <2> SUFFICES ASSUME NEW l \in (i + 1) .. N - 1, iPageString[l] = iPageNum[loc]
               PROVE  \E m \in (i + 1) .. l : iPageString[m] = iPageNum[j]
    BY DEF UsedFirst
  <2>1. /\ nextUse[loc] \in (i + 1) .. N
        /\ \A k \in (i + 1) .. nextUse[loc] - 1 : iPageString[k] # iPageNum[loc]
    BY <1>3, <1>6, AllocateFacts
  <2>2. nextUse[loc] <= l
    <3> HIDE DEF nextUse
    <3> QED BY <1>3, <2>1
  <2>3. nextUse[j] \in (i + 1) .. N /\ nextUse[j] <= l
    <3>1. nextUse[j] <= nextUse[loc] /\ nextUse[j] \in (i + 1) .. N
      BY <1>4, <1>6
    <3> HIDE DEF nextUse
    <3> QED BY <1>3, <2>1, <2>2, <3>1
  <2>4. nextUse[j] < N
    <3> HIDE DEF nextUse
    <3> QED BY <1>3, <2>3, Sizes
  <2>5. iPageString[nextUse[j]] = iPageNum[j]
    BY <1>3, <2>4, AllocateFacts
  <2>6. nextUse[j] \in (i + 1) .. l
    <3> HIDE DEF nextUse
    <3> QED BY <1>3, <2>3
  <2> QED BY <2>5, <2>6
<1> HIDE DEF nextUse
<1>8. Held \in PageSet /\ iPageString[i] \notin Held /\ iPageNum[loc] \in Held
  BY <1>1, <1>2, <1>6 DEF Held, Missed, PageSet
<1>9. UsedLast(iPageString, iPageNum[loc], Held, i + 1)
  BY <1>7 DEF Held, UsedLast
<1>10. Fewest(iPageString)[i][Held] =
         1 + Fewest(iPageString)[i + 1][(Held \ {iPageNum[loc]}) \cup {iPageString[i]}]
  <2>1. CheapestIs(iPageString, iPageNum[loc], Held, i)
    BY <1>2, <1>8, <1>9, BestVictim
  <2> QED BY <2>1 DEF CheapestIs
<1>11. Held' = (Held \ {iPageNum[loc]}) \cup {iPageString[i]}
  <2>1. iPageNum' = [iPageNum EXCEPT ![loc] = iPageString[i]]
    BY <1>1 DEF Load
  <2>2. \A j \in Frame : iPageNum[j] = iPageNum[loc] => j = loc
    BY <1>1, <1>2, <1>6 DEF FramesDistinct
  <2> QED BY <1>2, <1>6, <2>1, <2>2 DEF Held
<1>12. Spent(n + 1)'
  <2>1. Fewest(iPageString)[i + 1][(Held \ {iPageNum[loc]}) \cup {iPageString[i]}] \in Int
    <3>1. Fewest(iPageString)[i + 1] \in [PageSet -> Nat]
      BY <1>2, <1>3, FewestFacts DEF Numbers
    <3>2. (Held \ {iPageNum[loc]}) \cup {iPageString[i]} \in PageSet
      BY <1>2, <1>8 DEF PageSet
    <3> QED BY <3>1, <3>2
  <2> QED BY <1>2, <1>10, <1>11, <2>1 DEF Spent
<1>13. Counted(n + 1)'
  BY <1>1, CountStep
<1> QED BY <1>12, <1>13

(* Every step keeps the sum.                                               *)
LEMMA OptInvStep ==
  ASSUME FramesInv, OptInv, [Next]_vars
  PROVE  OptInv'
<1>1. TypeInv
  BY DEF FramesInv
<1>2. CASE UNCHANGED vars \/ Exit
  <2>1. UNCHANGED <<iPageString, ch, flag, iPageNum, iBlockFlag, i, pc>>
    BY <1>2 DEF Exit, vars, blocks
  <2> QED BY <2>1 DEF OptInv, Counted, CountedBy, Spent, Held
<1>3. CASE Menu \/ Report
  <2>1. pc' \notin {"loop", "report"}
    BY <1>3 DEF Menu, Report, Goto
  <2> QED BY <2>1 DEF OptInv
<1>4. CASE InitialBlock
  <2>1. pc' = "loop"
    BY <1>4 DEF InitialBlock, Goto
  <2> QED BY <1>1, <1>4, <2>1, OptStart DEF OptInv
<1>5. CASE OptHit \/ OptMiss
  <2>1. pc = "loop" /\ ch = "o" /\ pc' = "loop"
    BY <1>5 DEF OptHit, OptMiss, Turn
  <2>2. PICK n \in Int : Counted(n) /\ Spent(n)
    BY <2>1 DEF OptInv
  <2>3. CASE OptHit
    <3>1. (Counted(n) /\ Spent(n))'
      BY <1>1, <2>2, <2>3, OptHitStep
    <3> QED BY <2>1, <3>1 DEF OptInv
  <2>4. CASE OptMiss
    <3>1. (Counted(n + 1) /\ Spent(n + 1))'
      BY <2>2, <2>4, OptMissStep
    <3>2. PICK m \in Int : m = n + 1
      OBVIOUS
    <3>3. (Counted(m) /\ Spent(m))'
      BY <3>1, <3>2
    <3> QED BY <2>1, <3>3 DEF OptInv
  <2> QED BY <1>5, <2>3, <2>4
<1>6. CASE FifoHit \/ FifoMiss \/ LruHit \/ LruMiss
  <2>1. pc' = "loop" /\ ch' \in {"f", "l"}
    BY <1>6 DEF FifoHit, FifoMiss, LruHit, LruMiss, Turn
  <2> QED BY <2>1 DEF OptInv
<1>7. CASE LoopEnds
  <2>1. /\ i = N /\ pc = "loop" /\ pc' = "report"
        /\ UNCHANGED <<iPageString, ch, flag, iPageNum, iBlockFlag, i>>
    BY <1>7 DEF LoopEnds, Goto, blocks
  <2> QED BY <2>1 DEF OptInv, Counted, CountedBy, Spent, Held
<1> QED BY <1>2, <1>3, <1>4, <1>5, <1>6, <1>7 DEF Next

(* The sum is right in every reachable state.                              *)
LEMMA OptInvariance == Spec => []OptInv
<1>1. Init => OptInv
  BY InitType DEF OptInv
<1>2. FramesInv /\ OptInv /\ [Next]_vars => OptInv'
  BY OptInvStep
<1> QED BY <1>1, <1>2, FramesInvariance, PTL DEF Spec

(* No replacement of pages makes fewer faults than Optimal reports.        *)
THEOREM OptimalFewest == Spec => []OptimalIsOptimal
<1>1. TypeInv /\ OptInv => OptimalIsOptimal
  <2> SUFFICES ASSUME TypeInv, OptInv, pc = "report", ch = "o"
               PROVE  PageNum = 3 + Fewest(iPageString)[3][{iPageString[k] : k \in Frame}]
    BY Sizes DEF OptimalIsOptimal
  <2>1. PICK n \in Int : Counted(n) /\ Spent(n) /\ i = N
    BY DEF OptInv
  <2>2. PageNum = n
    BY <2>1, PageNumIsCount
  <2>3. Fewest(iPageString)[N][Held] = 0
    <3>1. Held \in PageSet
      BY Sizes DEF Held, PageSet, TypeInv, TypeOK
    <3>2. iPageString \in [0 .. N - 1 -> Page]
      BY StringType DEF TypeInv, TypeOK
    <3> QED BY <3>1, <3>2, FewestFacts
  <2> QED BY <2>1, <2>2, <2>3 DEF Spent
<1> QED BY <1>1, OptInvariance, TypeInvariance, PTL
=============================================================================
