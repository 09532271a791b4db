---------------------------- MODULE BankerProofs ----------------------------
(***************************************************************************)
(* Theorems of Banker for any numbers of processes and resources, any      *)
(* initial matrices main could be given and any requests.                  *)
(***************************************************************************)
EXTENDS Banker, InductionLemmas

(* A system has a process.                                                 *)
LEMMA Size == N \in Nat /\ N # 0
BY BankerAssumption

(* f holds the partial sums of Total for resource j.                       *)
TotalSums(f, avail, alloc, j) ==
  /\ f \in [0 .. N -> Int]
  /\ f[0] = avail[j]
  /\ \A k \in 1 .. N : f[k] = f[k - 1] + alloc[k - 1][j]
  /\ Total(avail, alloc)[j] = f[N]

(* Total is defined: the recursion by which it adds up has a solution.     *)
LEMMA TotalSum ==
  ASSUME NEW avail \in [Res -> Int], NEW alloc \in [Proc -> [Res -> Int]],
         NEW j \in Res
  PROVE  \E f : TotalSums(f, avail, alloc, j)
<1> DEFINE step == [n \in 0 .. N - 1 |-> [x \in Int |-> x + alloc[n][j]]]
           Sum(f) == f = [n \in 0 .. N |->
             IF n = 0 THEN avail[j] ELSE f[n - 1] + alloc[n - 1][j]]
           sum == CHOOSE f : Sum(f)
<1>1. N \in Nat /\ avail[j] \in Int
  BY BankerAssumption
<1>2. step \in [0 .. N - 1 -> [Int -> Int]]
  BY DEF Proc
<1>3. PICK g : Recursive(g, N, Int, avail[j], step)
  <2> HIDE DEF step
  <2> QED BY <1>1, <1>2, Recursion
<1>4. /\ g \in [0 .. N -> Int] /\ g[0] = avail[j]
      /\ \A k \in 1 .. N : g[k] = g[k - 1] + alloc[k - 1][j]
  <2>1. \A k \in 1 .. N : k - 1 \in 0 .. N /\ k - 1 \in 0 .. N - 1
    BY <1>1
  <2> QED BY <1>3, <2>1 DEF Recursive
<1>5. Sum(g)
  BY <1>1, <1>4
<1>6. Sum(sum)
  <2> HIDE DEF Sum
  <2> QED BY <1>5
<1>7. ASSUME NEW f, Sum(f)
      PROVE  f[0] = avail[j] /\ \A k \in 1 .. N : f[k] = f[k - 1] + alloc[k - 1][j]
  <2>1. f[0] = avail[j]
    BY <1>1, <1>7
  <2>2. ASSUME NEW k \in 1 .. N PROVE f[k] = f[k - 1] + alloc[k - 1][j]
    <3>1. k # 0 /\ k \in 0 .. N
      BY <1>1
    <3> QED BY <1>7, <3>1
  <2> QED BY <2>1, <2>2
<1>8. sum[N] = g[N]
  <2> HIDE DEF sum, Sum
  <2>1. sum[0] = g[0] /\ \A k \in 1 .. N : sum[k - 1] = g[k - 1] => sum[k] = g[k]
    BY <1>4, <1>6, <1>7
  <2>2. \A k \in 0 .. N : sum[k] = g[k]
    BY <1>1, <2>1, SameRecursion
  <2> QED BY <1>1, <2>2
<1>9. Total(avail, alloc)[j] = sum[N]
  BY DEF Total
<1> HIDE DEF sum
<1> QED BY <1>4, <1>8, <1>9 DEF TotalSums

(* f holds the partial sums of what is free of resource j.                 *)
FreeSums(f, S, av, al, j) ==
  /\ f \in [0 .. N -> Int]
  /\ f[0] = av[j]
  /\ \A k \in 1 .. N :
       f[k] = f[k - 1] + IF k - 1 \in S THEN al[k - 1][j] ELSE 0
  /\ Promised!FreeAfter(S, av, al)[j] = f[N]

(* FreeAfter is defined.                                                   *)
LEMMA FreeSum ==
  ASSUME NEW S, NEW av \in [Res -> Int], NEW al \in [Proc -> [Res -> Int]],
         NEW j \in Res
  PROVE  \E f : FreeSums(f, S, av, al, j)
<1> DEFINE step == [n \in 0 .. N - 1 |->
                     [x \in Int |-> x + IF n \in S THEN al[n][j] ELSE 0]]
           Sum(f) == f = [n \in 0 .. N |->
             IF n = 0 THEN av[j]
             ELSE f[n - 1] + IF n - 1 \in S THEN al[n - 1][j] ELSE 0]
           sum == CHOOSE f : Sum(f)
<1>1. N \in Nat /\ av[j] \in Int
  BY BankerAssumption
<1>2. step \in [0 .. N - 1 -> [Int -> Int]]
  BY DEF Proc
<1>3. PICK g : Recursive(g, N, Int, av[j], step)
  <2> HIDE DEF step
  <2> QED BY <1>1, <1>2, Recursion
<1>4. /\ g \in [0 .. N -> Int] /\ g[0] = av[j]
      /\ \A k \in 1 .. N :
           g[k] = g[k - 1] + IF k - 1 \in S THEN al[k - 1][j] ELSE 0
  <2>1. \A k \in 1 .. N : k - 1 \in 0 .. N /\ k - 1 \in 0 .. N - 1
    BY <1>1
  <2> QED BY <1>3, <2>1 DEF Recursive
<1>5. Sum(g)
  BY <1>1, <1>4
<1>6. Sum(sum)
  <2> HIDE DEF Sum
  <2> QED BY <1>5
<1>7. ASSUME NEW f, Sum(f)
      PROVE  /\ f[0] = av[j]
             /\ \A k \in 1 .. N :
                  f[k] = f[k - 1] + IF k - 1 \in S THEN al[k - 1][j] ELSE 0
  <2>1. f[0] = av[j]
    BY <1>1, <1>7
  <2>2. ASSUME NEW k \in 1 .. N
        PROVE  f[k] = f[k - 1] + IF k - 1 \in S THEN al[k - 1][j] ELSE 0
    <3>1. k # 0 /\ k \in 0 .. N
      BY <1>1
    <3> QED BY <1>7, <3>1
  <2> QED BY <2>1, <2>2
<1>8. sum[N] = g[N]
  <2> HIDE DEF sum, Sum
  <2>1. sum[0] = g[0] /\ \A k \in 1 .. N : sum[k - 1] = g[k - 1] => sum[k] = g[k]
    BY <1>4, <1>6, <1>7
  <2>2. \A k \in 0 .. N : sum[k] = g[k]
    BY <1>1, <2>1, SameRecursion
  <2> QED BY <1>1, <2>2
<1>9. Promised!FreeAfter(S, av, al)[j] = sum[N]
  BY DEF Promised!FreeAfter
<1> HIDE DEF sum
<1> QED BY <1>4, <1>8, <1>9 DEF FreeSums

(* What is free is a vector of numbers.                                    *)
LEMMA FreeType ==
  ASSUME NEW S, NEW av \in [Res -> Int], NEW al \in [Proc -> [Res -> Int]]
  PROVE  Promised!FreeAfter(S, av, al) \in [Res -> Int]
<1>1. ASSUME NEW j \in Res
      PROVE  Promised!FreeAfter(S, av, al)[j] \in Int
  <2>1. PICK f : FreeSums(f, S, av, al, j)
    BY FreeSum
  <2> QED BY <2>1, Size DEF FreeSums
<1>2. Promised!FreeAfter(S, av, al)
        = [j \in Res |-> Promised!FreeAfter(S, av, al)[j]]
  BY DEF Promised!FreeAfter
<1> QED BY <1>1, <1>2

(* With nobody finished what is available is free.                         *)
LEMMA FreeNone ==
  ASSUME NEW av \in [Res -> Int], NEW al \in [Proc -> [Res -> Int]]
  PROVE  Promised!FreeAfter({}, av, al) = av
<1>1. ASSUME NEW j \in Res
      PROVE  Promised!FreeAfter({}, av, al)[j] = av[j]
  <2>1. PICK f : FreeSums(f, {}, av, al, j)
    BY FreeSum
  <2> DEFINE g == [k \in 0 .. N |-> av[j]]
  <2>2. f[0] = g[0] /\ \A k \in 1 .. N : f[k - 1] = g[k - 1] => f[k] = g[k]
    <3>1. \A k \in 1 .. N : k - 1 \in 0 .. N /\ k \in 0 .. N
      BY Size
    <3>2. ASSUME NEW k \in 1 .. N
          PROVE  f[k] = f[k - 1] + 0 /\ f[k - 1] \in Int
      BY <2>1, <3>1 DEF FreeSums
    <3>3. f[0] = g[0]
      BY <2>1, Size DEF FreeSums
    <3> QED BY <3>1, <3>2, <3>3
  <2>3. \A k \in 0 .. N : f[k] = g[k]
    <3> HIDE DEF g
    <3> QED BY <2>2, Size, SameRecursion
  <2> QED BY <2>1, <2>3, Size DEF FreeSums
<1>2. Promised!FreeAfter({}, av, al) \in [Res -> Int]
  BY FreeType
<1> QED BY <1>1, <1>2

(* A process that finishes gives back what it holds ...                    *)
LEMMA FreeOneMore ==
  ASSUME NEW av \in [Res -> Int], NEW al \in [Proc -> [Res -> Int]],
         NEW S, NEW i \in Proc, i \notin S, NEW j \in Res
  PROVE  Promised!FreeAfter(S \cup {i}, av, al)[j]
           = Promised!FreeAfter(S, av, al)[j] + al[i][j]
<1>1. PICK f : FreeSums(f, S \cup {i}, av, al, j)
  BY FreeSum
<1>2. PICK g : FreeSums(g, S, av, al, j)
  BY FreeSum
<1> DEFINE d == [k \in 0 .. N |-> IF k <= i THEN 0 ELSE al[i][j]]
<1>3. /\ f \in [0 .. N -> Int] /\ g \in [0 .. N -> Int]
      /\ f[0] = g[0] /\ g[0] \in Int
  BY <1>1, <1>2, Size DEF FreeSums
<1>4. /\ i \in 0 .. N - 1 /\ al[i][j] \in Int
      /\ d \in [0 .. N -> Int] /\ d[0] = 0 /\ d[N] = al[i][j]
  BY Size DEF Proc
<1>5. ASSUME NEW k \in 1 .. N
      PROVE  f[k] - f[k - 1] = (g[k] - g[k - 1]) + (d[k] - d[k - 1])
  <2>1. /\ f[k] = f[k - 1] + IF k - 1 \in S \cup {i} THEN al[k - 1][j] ELSE 0
        /\ g[k] = g[k - 1] + IF k - 1 \in S THEN al[k - 1][j] ELSE 0
    BY <1>1, <1>2 DEF FreeSums
  <2>2. f[k - 1] \in Int /\ g[k - 1] \in Int /\ al[k - 1][j] \in Int
    BY <1>3, Size DEF Proc
  <2>3. d[k] - d[k - 1] = IF k - 1 = i THEN al[i][j] ELSE 0
    BY <1>4, Size
  <2>4. CASE k - 1 = i
    <3>1. f[k] = f[k - 1] + al[k - 1][j] /\ g[k] = g[k - 1] + 0
      BY <2>1, <2>4
    <3> HIDE DEF d
    <3> QED BY <2>2, <2>3, <2>4, <3>1
  <2>5. CASE k - 1 # i
    <3>1. (k - 1 \in S \cup {i}) <=> (k - 1 \in S)
      BY <2>5
    <3> HIDE DEF d
    <3> QED BY <2>1, <2>2, <2>3, <2>5, <3>1
  <2> QED BY <2>4, <2>5
<1>6. f[N] = g[N] + d[N]
  <2> HIDE DEF d
  <2>1. f[0] = g[0] + d[0]
    BY <1>3, <1>4
  <2> QED BY <1>3, <1>4, <1>5, <2>1, Size, SumsDiffer
<1> QED BY <1>1, <1>2, <1>4, <1>6 DEF FreeSums

(* ... so that the more have finished, the more is free.                   *)
LEMMA FreeMore ==
  ASSUME NEW av \in [Res -> Int], NEW al \in [Proc -> [Res -> Nat]],
         NEW S, NEW T, S \subseteq T, NEW j \in Res
  PROVE  Promised!FreeAfter(S, av, al)[j] <= Promised!FreeAfter(T, av, al)[j]
<1>1. al \in [Proc -> [Res -> Int]]
  OBVIOUS
<1>2. PICK f : FreeSums(f, S, av, al, j)
  BY <1>1, FreeSum
<1>3. PICK g : FreeSums(g, T, av, al, j)
  BY <1>1, FreeSum
<1>4. /\ f \in [0 .. N -> Int] /\ g \in [0 .. N -> Int]
      /\ f[0] <= g[0]
  BY <1>2, <1>3, Size DEF FreeSums
<1>5. ASSUME NEW k \in 1 .. N
      PROVE  f[k] - f[k - 1] <= g[k] - g[k - 1]
  <2>1. /\ f[k] = f[k - 1] + IF k - 1 \in S THEN al[k - 1][j] ELSE 0
        /\ g[k] = g[k - 1] + IF k - 1 \in T THEN al[k - 1][j] ELSE 0
    BY <1>2, <1>3 DEF FreeSums
  <2>2. f[k - 1] \in Int /\ g[k - 1] \in Int /\ al[k - 1][j] \in Nat
    BY <1>4, Size DEF Proc
  <2> QED BY <2>1, <2>2
<1>6. f[N] <= g[N]
  BY <1>4, <1>5, Size, SumsCompare
<1> QED BY <1>2, <1>3, <1>6 DEF FreeSums

(* So is the total ...                                                     *)
LEMMA TotalType ==
  ASSUME NEW avail \in [Res -> Int], NEW alloc \in [Proc -> [Res -> Int]]
  PROVE  Total(avail, alloc) \in [Res -> Int]
<1>1. ASSUME NEW j \in Res
      PROVE  Total(avail, alloc)[j] \in Int
  <2>1. PICK f : TotalSums(f, avail, alloc, j)
    BY TotalSum
  <2> QED BY <2>1, Size DEF TotalSums
<1>2. Total(avail, alloc) = [j \in Res |-> Total(avail, alloc)[j]]
  BY DEF Total
<1> QED BY <1>1, <1>2

(* ... which is not negative where nothing is.                             *)
LEMMA TotalIsNat ==
  ASSUME NEW avail \in [Res -> Nat], NEW alloc \in [Proc -> [Res -> Nat]]
  PROVE  Total(avail, alloc) \in [Res -> Nat]
<1>1. avail \in [Res -> Int] /\ alloc \in [Proc -> [Res -> Int]]
  OBVIOUS
<1>2. ASSUME NEW j \in Res
      PROVE  Total(avail, alloc)[j] >= 0
  <2>1. PICK g : TotalSums(g, avail, alloc, j)
    BY <1>1, TotalSum
  <2> DEFINE f == [k \in 0 .. N |-> 0]
  <2>2. /\ f \in [0 .. N -> Int] /\ g \in [0 .. N -> Int] /\ f[0] <= g[0]
        /\ f[N] = 0
    BY <2>1, Size DEF TotalSums
  <2>3. ASSUME NEW k \in 1 .. N
        PROVE  f[k] - f[k - 1] <= g[k] - g[k - 1]
    <3>1. g[k] = g[k - 1] + alloc[k - 1][j]
      BY <2>1 DEF TotalSums
    <3>2. g[k - 1] \in Int /\ alloc[k - 1][j] \in Nat
      BY <2>2, Size DEF Proc
    <3>3. f[k] = 0 /\ f[k - 1] = 0
      BY Size
    <3> QED BY <3>1, <3>2, <3>3
  <2>4. f[N] <= g[N]
    <3> HIDE DEF f
    <3> QED BY <2>2, <2>3, Size, SumsCompare
  <2> QED BY <2>1, <2>2, <2>4, Size DEF TotalSums
<1>3. Total(avail, alloc) \in [Res -> Int]
  BY <1>1, TotalType
<1>4. \A j \in Res : Total(avail, alloc)[j] \in Nat
  BY <1>2, <1>3
<1> QED BY <1>3, <1>4

(* What process i is given is taken from what is available.                *)
Given(avail, alloc, i, r, av2, al2) ==
  /\ avail \in [Res -> Int] /\ alloc \in [Proc -> [Res -> Int]]
  /\ i \in Proc /\ r \in [Res -> Int]
  /\ av2 \in [Res -> Int] /\ al2 \in [Proc -> [Res -> Int]]
  /\ \A j \in Res : av2[j] = avail[j] - r[j]
  /\ \A k \in Proc, j \in Res :
       al2[k][j] = IF k = i THEN alloc[k][j] + r[j] ELSE alloc[k][j]

(* Giving and taking back leave the total alone.                           *)
LEMMA TotalGiven ==
  ASSUME NEW avail, NEW alloc, NEW i, NEW r, NEW av2, NEW al2,
         Given(avail, alloc, i, r, av2, al2)
  PROVE  Total(av2, al2) = Total(avail, alloc)
<1>0. /\ avail \in [Res -> Int] /\ alloc \in [Proc -> [Res -> Int]]
      /\ i \in Proc /\ r \in [Res -> Int]
      /\ av2 \in [Res -> Int] /\ al2 \in [Proc -> [Res -> Int]]
  BY DEF Given
<1>1. ASSUME NEW j \in Res
      PROVE  Total(av2, al2)[j] = Total(avail, alloc)[j]
  <2>1. PICK f : TotalSums(f, av2, al2, j)
    BY <1>0, TotalSum
  <2>2. PICK g : TotalSums(g, avail, alloc, j)
    BY <1>0, TotalSum
  <2> DEFINE d == [k \in 0 .. N |-> IF k <= i THEN 0 - r[j] ELSE 0]
  <2>3. /\ f \in [0 .. N -> Int] /\ g \in [0 .. N -> Int]
        /\ f[0] = av2[j] /\ g[0] = avail[j]
    BY <2>1, <2>2, Size DEF TotalSums
  <2>4. /\ i \in 0 .. N - 1 /\ r[j] \in Int /\ avail[j] \in Int
        /\ d \in [0 .. N -> Int] /\ d[0] = 0 - r[j] /\ d[N] = 0
    BY <1>0, Size DEF Proc
  <2>5. f[0] = g[0] + d[0]
    <3>1. av2[j] = avail[j] - r[j]
      BY DEF Given
    <3> HIDE DEF d
    <3> QED BY <2>3, <2>4, <3>1
  <2>6. ASSUME NEW k \in 1 .. N
        PROVE  f[k] - f[k - 1] = (g[k] - g[k - 1]) + (d[k] - d[k - 1])
    <3>1. /\ f[k] = f[k - 1] + al2[k - 1][j]
          /\ g[k] = g[k - 1] + alloc[k - 1][j]
      BY <2>1, <2>2 DEF TotalSums
    <3>2. /\ f[k - 1] \in Int /\ g[k - 1] \in Int /\ alloc[k - 1][j] \in Int
          /\ k - 1 \in Proc
      BY <1>0, <2>3, Size DEF Proc
    <3>3. d[k] - d[k - 1] = IF k - 1 = i THEN r[j] ELSE 0
      BY <2>4, Size
    <3>4. al2[k - 1][j] = IF k - 1 = i THEN alloc[k - 1][j] + r[j]
                                       ELSE alloc[k - 1][j]
      BY <3>2 DEF Given
    <3> HIDE DEF d
    <3>5. CASE k - 1 = i
      <4>1. d[k] - d[k - 1] = r[j] /\ f[k] = f[k - 1] + (alloc[k - 1][j] + r[j])
        BY <3>1, <3>3, <3>4, <3>5
      <4>2. f[k] - f[k - 1] = (g[k] - g[k - 1]) + r[j]
        BY <2>4, <3>1, <3>2, <4>1
      <4> QED BY <4>1, <4>2
    <3>6. CASE k - 1 # i
      <4>1. d[k] - d[k - 1] = 0 /\ f[k] = f[k - 1] + alloc[k - 1][j]
        BY <3>1, <3>3, <3>4, <3>6
      <4>2. f[k] - f[k - 1] = (g[k] - g[k - 1]) + 0
        BY <3>1, <3>2, <4>1
      <4> QED BY <4>1, <4>2
    <3> QED BY <3>5, <3>6
  <2>7. f[N] = g[N] + d[N]
    <3> HIDE DEF d
    <3> QED BY <2>3, <2>4, <2>5, <2>6, Size, SumsDiffer
  <2>8. f[N] = g[N]
    <3> HIDE DEF d
    <3> QED BY <2>3, <2>4, <2>7, Size
  <2> QED BY <2>1, <2>2, <2>8 DEF TotalSums
<1>2. /\ Total(av2, al2) = [j \in Res |-> Total(av2, al2)[j]]
      /\ Total(avail, alloc) = [j \in Res |-> Total(avail, alloc)[j]]
  BY DEF Total
<1> QED BY <1>1, <1>2

-----------------------------------------------------------------------------
(* The loop of IsSafety                                                    *)

Turns == N * N
Index(k) == (k - 1) % N

(* A turn looks at a process.                                              *)
LEMMA IndexType ==
  ASSUME NEW k \in 1 .. Turns
  PROVE  Index(k) \in Proc
BY Size DEF Index, Proc, Turns

(* The number of turns.                                                    *)
LEMMA TurnsType == Turns \in Nat
BY Size DEF Turns

State(al, nd) ==
  [work : [Res -> Int], alloc : {al}, need : {nd},
   finish : SUBSET Proc, safeSeq : Seq(Proc)]

Start(av, al, nd) ==
  [work |-> av, alloc |-> al, need |-> nd, finish |-> {}, safeSeq |-> <<>>]

(* t is the state of the loop before its first turn and after each one.    *)
Run(t, av, al, nd) ==
  /\ t \in [0 .. Turns -> State(al, nd)]
  /\ t[0] = Start(av, al, nd)
  /\ \A k \in 1 .. Turns : t[k] = Visit(t[k - 1], Index(k))

(* A turn leads from a state of the loop to another.                       *)
LEMMA VisitType ==
  ASSUME NEW al \in [Proc -> [Res -> Int]], NEW nd,
         NEW st \in State(al, nd), NEW i \in Proc
  PROVE  Visit(st, i) \in State(al, nd)
<1>1. CASE i \notin st.finish /\ CanFinish(st.need, i, st.work)
  <2>1. Visit(st, i) = [work |-> Release(al, i, st.work), alloc |-> al,
                        need |-> nd, finish |-> st.finish \cup {i},
                        safeSeq |-> Append(st.safeSeq, i)]
    BY <1>1 DEF Visit, State
  <2>2. Release(al, i, st.work) \in [Res -> Int]
    BY DEF Release, State
  <2>3. Append(st.safeSeq, i) \in Seq(Proc)
    BY DEF State
  <2>4. st.finish \cup {i} \in SUBSET Proc
    BY DEF State
  <2> QED BY <2>1, <2>2, <2>3, <2>4 DEF State
<1>2. CASE ~(i \notin st.finish /\ CanFinish(st.need, i, st.work))
  BY <1>2 DEF Visit
<1> QED BY <1>1, <1>2

(* The state before the loop.                                              *)
LEMMA StartType ==
  ASSUME NEW av \in [Res -> Int], NEW al, NEW nd
  PROVE  Start(av, al, nd) \in State(al, nd)
BY DEF Start, State

(* SafeSeq is defined: it is what the loop has found in its last state.    *)
LEMMA SafeSeqRun ==
  ASSUME NEW av \in [Res -> Int], NEW al \in [Proc -> [Res -> Int]],
         NEW nd
  PROVE  \E t : Run(t, av, al, nd) /\ SafeSeq(av, al, nd) = t[Turns].safeSeq
<1> DEFINE S == State(al, nd)
           step == [n \in 0 .. Turns - 1 |-> [s \in S |-> Visit(s, Index(n + 1))]]
           start == Start(av, al, nd)
           Turn(f) == f = [k \in 0 .. Turns |->
             IF k = 0 THEN {start} ELSE {Visit(st, Index(k)) : st \in f[k - 1]}]
           turn == CHOOSE f : Turn(f)
<1>1. step \in [0 .. Turns - 1 -> [S -> S]]
  <2>1. ASSUME NEW n \in 0 .. Turns - 1, NEW s \in S
        PROVE  Visit(s, Index(n + 1)) \in S
    <3>1. n + 1 \in 1 .. Turns
      BY TurnsType
    <3>2. Index(n + 1) \in Proc
      BY <3>1, IndexType
    <3> QED BY <3>2, VisitType
  <2> HIDE DEF S
  <2> QED BY <2>1
<1>2. start \in S
  BY StartType
<1>3. PICK t : Recursive(t, Turns, S, start, step)
  <2> HIDE DEF S, step, start
  <2> QED BY <1>1, <1>2, TurnsType, Recursion
<1>4. /\ t \in [0 .. Turns -> S] /\ t[0] = start
      /\ \A k \in 1 .. Turns : t[k] = Visit(t[k - 1], Index(k))
  <2>1. t \in [0 .. Turns -> S] /\ t[0] = start
    BY <1>3 DEF Recursive
  <2>2. ASSUME NEW k \in 1 .. Turns
        PROVE  t[k] = Visit(t[k - 1], Index(k))
    <3>1. k - 1 \in 0 .. Turns - 1 /\ k - 1 \in 0 .. Turns /\ (k - 1) + 1 = k
      BY TurnsType
    <3>2. t[k] = step[k - 1][t[k - 1]] /\ t[k - 1] \in S
      BY <1>3, <2>1, <3>1 DEF Recursive
    <3> HIDE DEF S
    <3> QED BY <3>1, <3>2
  <2> QED BY <2>1, <2>2
<1>5. Run(t, av, al, nd)
  BY <1>4 DEF Run
<1> DEFINE u == [k \in 0 .. Turns |-> {t[k]}]
<1>6. Turn(u)
  <2> HIDE DEF S, start
  <2>1. ASSUME NEW k \in 1 .. Turns
        PROVE  {t[k]} = {Visit(st, Index(k)) : st \in u[k - 1]}
    <3>1. u[k - 1] = {t[k - 1]}
      BY TurnsType
    <3> HIDE DEF u
    <3> QED BY <1>4, <3>1
  <2>2. u = [k \in 0 .. Turns |->
              IF k = 0 THEN {start} ELSE {Visit(st, Index(k)) : st \in u[k - 1]}]
    <3>1. ASSUME NEW k \in 0 .. Turns
          PROVE  u[k] = IF k = 0 THEN {start}
                        ELSE {Visit(st, Index(k)) : st \in u[k - 1]}
      <4>1. CASE k = 0
        BY <1>4, <4>1
      <4>2. CASE k # 0
        <5>1. k \in 1 .. Turns /\ u[k] = {t[k]}
          BY <4>2, TurnsType
        <5> HIDE DEF u
        <5> QED BY <2>1, <4>2, <5>1
      <4> QED BY <4>1, <4>2
    <3> HIDE DEF start
    <3> QED BY <3>1
  <2> HIDE DEF u
  <2> QED BY <2>2
<1>7. Turn(turn)
  <2> HIDE DEF Turn, u
  <2> QED BY <1>6
<1>8. turn[Turns] = {t[Turns]}
  <2>1. ASSUME NEW f, Turn(f)
        PROVE  /\ f[0] = {start}
               /\ \A k \in 1 .. Turns :
                    f[k] = {Visit(st, Index(k)) : st \in f[k - 1]}
    <3>1. f[0] = {start}
      BY <2>1, TurnsType
    <3>2. ASSUME NEW k \in 1 .. Turns
          PROVE  f[k] = {Visit(st, Index(k)) : st \in f[k - 1]}
      <4>1. k # 0 /\ k \in 0 .. Turns
        BY TurnsType
      <4> QED BY <2>1, <4>1
    <3> QED BY <3>1, <3>2
  <2>2. turn[0] = u[0] /\ \A k \in 1 .. Turns :
                           turn[k - 1] = u[k - 1] => turn[k] = u[k]
    <3> HIDE DEF turn, Turn, u, start
    <3>1. turn[0] = u[0]
      BY <1>6, <1>7, <2>1
    <3>2. ASSUME NEW k \in 1 .. Turns, turn[k - 1] = u[k - 1]
          PROVE  turn[k] = u[k]
      <4>1. turn[k] = {Visit(st, Index(k)) : st \in turn[k - 1]}
        BY <1>7, <2>1
      <4>2. u[k] = {Visit(st, Index(k)) : st \in u[k - 1]}
        BY <1>6, <2>1
      <4> QED BY <3>2, <4>1, <4>2
    <3> QED BY <3>1, <3>2
  <2>3. \A k \in 0 .. Turns : turn[k] = u[k]
    <3> HIDE DEF turn, u
    <3> QED BY <2>2, TurnsType, SameRecursion
  <2>4. u[Turns] = {t[Turns]} /\ Turns \in 0 .. Turns
    BY TurnsType
  <2> HIDE DEF turn, u
  <2> QED BY <2>3, <2>4
<1>9. SafeSeq(av, al, nd) = (CHOOSE st \in turn[Turns] : TRUE).safeSeq
  BY DEF SafeSeq, Turns, Index, Start
<1>10. (CHOOSE st \in turn[Turns] : TRUE) = t[Turns]
  <2> HIDE DEF turn
  <2> QED BY <1>8
<1> HIDE DEF turn
<1> QED BY <1>5, <1>9, <1>10

Behind(seq, k) == {seq[l] : l \in 1 .. k - 1}

(* What has been found so far is in an order in which it can finish.       *)
InOrder(seq, av, al, nd) ==
  \A k \in 1 .. Len(seq) :
    /\ seq[k] \notin Behind(seq, k)
    /\ CanFinish(nd, seq[k], Promised!FreeAfter(Behind(seq, k), av, al))

Sound(st, av, al, nd) ==
  /\ st.finish = {st.safeSeq[l] : l \in 1 .. Len(st.safeSeq)}
  /\ Cardinality(st.finish) = Len(st.safeSeq)
  /\ st.work = Promised!FreeAfter(st.finish, av, al)
  /\ InOrder(st.safeSeq, av, al, nd)

(* The number of processes that can finish.                                *)
LEMMA FinishFinite ==
  ASSUME NEW S \in SUBSET Proc
  PROVE  /\ IsFiniteSet(S) /\ Cardinality(S) \in Nat
         /\ Cardinality(S) <= N
         /\ Cardinality(S) = N => S = Proc
         /\ \A i \in Proc \ S :
              Cardinality(S \cup {i}) = Cardinality(S) + 1
<1>1. IsFiniteSet(Proc) /\ Cardinality(Proc) = N
  <2>1. IsFiniteSet(0 .. N - 1) /\ Cardinality(0 .. N - 1) = (N - 1) - 0 + 1
    BY FS_Interval, Size
  <2> QED BY <2>1, Size DEF Proc
<1>2. /\ IsFiniteSet(S) /\ Cardinality(S) \in Nat
      /\ Cardinality(S) <= N
      /\ Cardinality(S) = N => S = Proc
  BY <1>1, FS_Subset, FS_CardinalityType
<1>3. \A i \in Proc \ S : Cardinality(S \cup {i}) = Cardinality(S) + 1
  BY <1>2, FS_AddElement
<1> QED BY <1>2, <1>3

(* Before the first turn nobody is found ...                               *)
LEMMA StartSound ==
  ASSUME NEW av \in [Res -> Int], NEW al \in [Proc -> [Res -> Int]], NEW nd
  PROVE  Sound(Start(av, al, nd), av, al, nd)
<1>1. /\ Start(av, al, nd).safeSeq = <<>> /\ Start(av, al, nd).finish = {}
      /\ Start(av, al, nd).work = av
  BY DEF Start
<1>2. Len(<<>>) = 0 /\ 1 .. 0 = {}
  OBVIOUS
<1>3. Cardinality({}) = 0
  BY FS_EmptySet
<1> QED BY <1>1, <1>2, <1>3, FreeNone DEF Sound, InOrder

(* ... and each turn finds nobody or one who can finish after those found  *)
(* before.                                                                 *)
LEMMA VisitSound ==
  ASSUME NEW av \in [Res -> Int], NEW al \in [Proc -> [Res -> Int]], NEW nd,
         NEW st \in State(al, nd), Sound(st, av, al, nd), NEW i \in Proc
  PROVE  Sound(Visit(st, i), av, al, nd)
<1>1. CASE ~(i \notin st.finish /\ CanFinish(st.need, i, st.work))
  BY <1>1 DEF Visit
<1>2. CASE i \notin st.finish /\ CanFinish(st.need, i, st.work)
  <2> DEFINE s == st.safeSeq
             t == Append(s, i)
             F == st.finish \cup {i}
  <2>1. /\ s \in Seq(Proc) /\ st.finish \in SUBSET Proc /\ st.need = nd
        /\ st.alloc = al
    BY DEF State
  <2>2. /\ Visit(st, i).work = Release(al, i, st.work)
        /\ Visit(st, i).finish = F
        /\ Visit(st, i).safeSeq = t
    BY <1>2, <2>1 DEF Visit, State
  <2>3. /\ Len(t) = Len(s) + 1 /\ Len(s) \in Nat
        /\ \A l \in 1 .. Len(s) : t[l] = s[l]
        /\ t[Len(s) + 1] = i
    BY <2>1
  <2>4. st.finish = {s[l] : l \in 1 .. Len(s)}
    BY DEF Sound
  <2>5. F = {t[l] : l \in 1 .. Len(t)}
    <3> HIDE DEF t, s
    <3> QED BY <2>3, <2>4
  <2>6. Cardinality(F) = Len(t)
    BY <1>2, <2>1, <2>3, FinishFinite DEF Sound
  <2>7. Release(al, i, st.work) = Promised!FreeAfter(F, av, al)
    <3>1. /\ Promised!FreeAfter(F, av, al) \in [Res -> Int]
          /\ Release(al, i, st.work) = [j \in Res |-> st.work[j] + al[i][j]]
          /\ st.work = Promised!FreeAfter(st.finish, av, al)
      BY FreeType DEF Release, Sound
    <3>2. \A j \in Res : Promised!FreeAfter(F, av, al)[j]
                           = Promised!FreeAfter(st.finish, av, al)[j] + al[i][j]
      <4> TAKE j \in Res
      <4> DEFINE done == st.finish
      <4>1. i \notin done
        BY <1>2
      <4> HIDE DEF done
      <4>2. Promised!FreeAfter(done \cup {i}, av, al)[j]
              = Promised!FreeAfter(done, av, al)[j] + al[i][j]
        BY <4>1, FreeOneMore
      <4> QED BY <4>2 DEF done
    <3> QED BY <3>1, <3>2
  <2>8. InOrder(t, av, al, nd)
    <3>1. ASSUME NEW k \in 1 .. Len(s)
          PROVE  t[k] = s[k] /\ Behind(t, k) = Behind(s, k)
      <4> HIDE DEF t, s
      <4>1. \A l \in 1 .. k - 1 : t[l] = s[l]
        BY <2>3
      <4> QED BY <2>3, <4>1 DEF Behind
    <3>2. Behind(t, Len(s) + 1) = st.finish
      <4> HIDE DEF t, s
      <4>1. (Len(s) + 1) - 1 = Len(s)
        BY <2>3
      <4>2. Behind(t, Len(s) + 1) = {t[l] : l \in 1 .. Len(s)}
        BY <4>1 DEF Behind
      <4> QED BY <2>3, <2>4, <4>2
    <3>3. InOrder(s, av, al, nd) /\ st.work = Promised!FreeAfter(st.finish, av, al)
      BY DEF Sound
    <3>4. CanFinish(nd, i, Promised!FreeAfter(st.finish, av, al)) /\ i \notin st.finish
      BY <1>2, <2>1, <3>3
    <3> HIDE DEF t, s
    <3>5. ASSUME NEW k \in 1 .. Len(t)
          PROVE  /\ t[k] \notin Behind(t, k)
                 /\ CanFinish(nd, t[k], Promised!FreeAfter(Behind(t, k), av, al))
      <4>1. CASE k \in 1 .. Len(s)
        BY <3>1, <3>3, <4>1 DEF InOrder
      <4>2. CASE k = Len(s) + 1
        BY <2>3, <3>2, <3>4, <4>2
      <4> QED BY <2>3, <4>1, <4>2
    <3> QED BY <3>5 DEF InOrder
  <2> HIDE DEF F, t
  <2> QED BY <2>2, <2>5, <2>6, <2>7, <2>8 DEF Sound
<1> QED BY <1>1, <1>2

(* A process that the loop would not add.                                  *)
Idle(st, i) == i \in st.finish \/ ~CanFinish(st.need, i, st.work)
Stuck(st) == \A i \in Proc : Idle(st, i)

(* After p passes and m turns of another.                                  *)
Progress(st, p, m) ==
  \/ Cardinality(st.finish) >= p + 1
  \/ Stuck(st)
  \/ /\ Cardinality(st.finish) >= p
     /\ \A i \in 0 .. m - 1 : Idle(st, i)

Passed(k, st) ==
  \E p \in Nat, m \in 0 .. N - 1 : k = p * N + m /\ Progress(st, p, m)

(* A pass in which nobody is found leaves the loop stuck: either some      *)
(* process more is found with each pass, or no pass will find one.         *)
LEMMA PassedStep ==
  ASSUME NEW al \in [Proc -> [Res -> Int]], NEW nd, NEW st \in State(al, nd),
         NEW k \in 1 .. Turns, Passed(k - 1, st)
  PROVE  Passed(k, Visit(st, Index(k)))
<1>1. PICK p \in Nat, m \in 0 .. N - 1 : k - 1 = p * N + m /\ Progress(st, p, m)
  BY DEF Passed
<1>2. Index(k) = m /\ m \in Proc
  <2>1. (p * N + m) % N = m
    BY Size
  <2> QED BY <1>1, <2>1 DEF Index, Proc
<1> DEFINE new == Visit(st, m)
<1>3. /\ Cardinality(st.finish) \in Nat
      /\ \/ new = st /\ Idle(st, m)
         \/ /\ ~Idle(st, m)
            /\ Cardinality(new.finish) = Cardinality(st.finish) + 1
  <2>1. st.finish \in SUBSET Proc
    BY DEF State
  <2>2. CASE Idle(st, m)
    BY <2>1, <2>2, FinishFinite DEF Visit, Idle
  <2>3. CASE ~Idle(st, m)
    <3>1. new.finish = st.finish \cup {m} /\ m \notin st.finish
      BY <2>3 DEF Visit, Idle, State
    <3> QED BY <1>2, <2>1, <2>3, <3>1, FinishFinite
  <2> QED BY <2>2, <2>3
<1>4. \/ Cardinality(new.finish) >= p + 1
      \/ Stuck(new)
      \/ /\ Cardinality(new.finish) >= p
         /\ \A i \in 0 .. m : Idle(new, i)
  <2> HIDE DEF new
  <2>1. CASE new = st /\ Idle(st, m)
    <3>1. \A i \in 0 .. m : i \in 0 .. m - 1 \/ i = m
      OBVIOUS
    <3> QED BY <1>1, <2>1, <3>1 DEF Progress
  <2>2. CASE ~Idle(st, m) /\ Cardinality(new.finish) = Cardinality(st.finish) + 1
    <3>1. ~Stuck(st)
      BY <1>2, <2>2 DEF Stuck
    <3>2. Cardinality(st.finish) >= p
      BY <1>1, <1>3, <3>1 DEF Progress
    <3> QED BY <1>3, <2>2, <3>2
  <2> QED BY <1>3, <2>1, <2>2
<1>5. CASE m + 1 <= N - 1
  <2> HIDE DEF new
  <2>1. k = p * N + (m + 1) /\ m + 1 \in 0 .. N - 1 /\ (m + 1) - 1 = m
    BY <1>1, <1>5, Size
  <2>2. Progress(new, p, m + 1)
    BY <1>4, <2>1 DEF Progress
  <2>3. Passed(k, new)
    BY <2>1, <2>2 DEF Passed
  <2> QED BY <1>2, <2>3 DEF new
<1>6. CASE m = N - 1
  <2> HIDE DEF new
  <2>1. (p + 1) * N = p * N + N
    BY Size
  <2>2. k = (p + 1) * N + 0 /\ 0 \in 0 .. N - 1 /\ p + 1 \in Nat
    BY <1>1, <1>6, <2>1, Size
  <2>3. \/ Cardinality(new.finish) >= p + 1
        \/ Stuck(new)
    BY <1>4, <1>6 DEF Stuck, Proc
  <2>4. Progress(new, p + 1, 0)
    BY <2>3 DEF Progress
  <2>5. Passed(k, new)
    BY <2>2, <2>4 DEF Passed
  <2> QED BY <1>2, <2>5 DEF new
<1> QED BY <1>5, <1>6, Size

(* When the loop ends nobody is left who could finish.                     *)
LEMMA RunEnds ==
  ASSUME NEW av \in [Res -> Int], NEW al \in [Proc -> [Res -> Int]], NEW nd,
         NEW t, Run(t, av, al, nd)
  PROVE  /\ t[Turns] \in State(al, nd)
         /\ Sound(t[Turns], av, al, nd)
         /\ Stuck(t[Turns])
<1> DEFINE S == {k \in 0 .. Turns : Sound(t[k], av, al, nd) /\ Passed(k, t[k])}
<1>1. 0 \in S
  <2>1. t[0] = Start(av, al, nd) /\ 0 \in 0 .. Turns
    BY TurnsType DEF Run
  <2>2. Sound(t[0], av, al, nd)
    BY <2>1, StartSound
  <2>3. Progress(t[0], 0, 0)
    <3>1. Cardinality(t[0].finish) = 0
      BY <2>1, FS_EmptySet DEF Start
    <3> QED BY <3>1 DEF Progress
  <2>4. 0 = 0 * N + 0 /\ 0 \in 0 .. N - 1
    BY Size
  <2>5. Passed(0, t[0])
    BY <2>3, <2>4 DEF Passed
  <2> QED BY <2>1, <2>2, <2>5
<1>2. ASSUME NEW k \in 0 .. Turns - 1, k \in S
      PROVE  k + 1 \in S
  <2>1. k + 1 \in 1 .. Turns /\ (k + 1) - 1 = k /\ k + 1 \in 0 .. Turns /\ k \in 0 .. Turns
    BY TurnsType
  <2>2. /\ t[k] \in State(al, nd) /\ t[k + 1] = Visit(t[k], Index(k + 1))
    BY <2>1 DEF Run
  <2>3. Sound(t[k], av, al, nd) /\ Passed((k + 1) - 1, t[k])
    BY <1>2, <2>1
  <2>4. Sound(t[k + 1], av, al, nd)
    BY <2>1, <2>2, <2>3, IndexType, VisitSound
  <2>5. Passed(k + 1, t[k + 1])
    BY <2>1, <2>2, <2>3, PassedStep
  <2> QED BY <2>1, <2>4, <2>5
<1>3. 0 .. Turns \subseteq S
  <2> HIDE DEF S
  <2> QED BY <1>1, <1>2, TurnsType, InductionUpTo
<1>4. /\ t[Turns] \in State(al, nd) /\ Sound(t[Turns], av, al, nd)
      /\ Passed(Turns, t[Turns])
  BY <1>3, TurnsType DEF Run
<1>5. PICK p \in Nat, m \in 0 .. N - 1 :
        N * N = p * N + m /\ Progress(t[Turns], p, m)
  BY <1>4 DEF Passed, Turns
<1>6. p >= N
  BY <1>5, Size
<1>7. t[Turns].finish \in SUBSET Proc
  BY <1>4 DEF State
<1>8. Stuck(t[Turns])
  <2>1. CASE Cardinality(t[Turns].finish) >= p
    <3>1. t[Turns].finish = Proc
      BY <1>6, <1>7, <2>1, FinishFinite, Size
    <3> QED BY <3>1 DEF Stuck, Idle
  <2>2. CASE ~(Cardinality(t[Turns].finish) >= p)
    BY <1>5, <1>7, <2>2, FinishFinite DEF Progress
  <2> QED BY <2>1, <2>2
<1> QED BY <1>4, <1>8

(* The loop finds an order in which all can finish if there is one, and    *)
(* there is one just when no group of processes is stuck.                  *)
LEMMA SafetyCheck ==
  ASSUME NEW av \in [Res -> Int], NEW al \in [Proc -> [Res -> Nat]],
         NEW nd \in [Proc -> [Res -> Int]]
  PROVE  /\ Len(SafeSeq(av, al, nd)) = N <=> Promised!Safe(av, al, nd)
         /\ InOrder(SafeSeq(av, al, nd), av, al, nd)
<1>1. al \in [Proc -> [Res -> Int]]
  OBVIOUS
<1>2. PICK t : Run(t, av, al, nd) /\ SafeSeq(av, al, nd) = t[Turns].safeSeq
  BY <1>1, SafeSeqRun
<1> DEFINE st == t[Turns]
           F == st.finish
           s == st.safeSeq
<1>3. st \in State(al, nd) /\ Sound(st, av, al, nd) /\ Stuck(st)
  BY <1>1, <1>2, RunEnds
<1>4. /\ SafeSeq(av, al, nd) = s /\ s \in Seq(Proc) /\ F \in SUBSET Proc
      /\ st.need = nd /\ Proc = Promised!Proc
  BY <1>2, <1>3 DEF State, Proc, Promised!Proc
<1> HIDE DEF st
<1>5. InOrder(s, av, al, nd)
  BY <1>3 DEF Sound
<1>6. /\ F = {s[l] : l \in 1 .. Len(s)} /\ Cardinality(F) = Len(s)
      /\ st.work = Promised!FreeAfter(F, av, al)
  BY <1>3 DEF Sound
<1> HIDE DEF F, s
<1>7. Len(s) = N <=> F = Proc
  <2>1. Cardinality(Proc) = N
    <3>1. Cardinality(0 .. N - 1) = (N - 1) - 0 + 1
      BY FS_Interval, Size
    <3> QED BY <3>1, Size DEF Proc
  <2> QED BY <1>4, <1>6, <2>1, FinishFinite
<1>8. ASSUME F = Proc
      PROVE  Promised!Safe(av, al, nd)
  <2> SUFFICES ASSUME NEW S \in SUBSET Proc, S # {}
               PROVE  \E i \in S : \A j \in Res :
                        nd[i][j] <= Promised!FreeAfter(Proc \ S, av, al)[j]
    BY <1>4 DEF Promised!Safe
  <2> DEFINE T == {k \in 1 .. Len(s) : s[k] \in S}
  <2>1. T \in SUBSET Nat /\ T # {}
    <3>1. PICK x \in S : x \in F
      BY <1>4, <1>8
    <3>2. PICK l \in 1 .. Len(s) : x = s[l]
      BY <1>6, <3>1
    <3>3. l \in T
      BY <3>1, <3>2
    <3>4. 1 .. Len(s) \subseteq Nat
      BY <1>4
    <3>5. T \subseteq 1 .. Len(s)
      OBVIOUS
    <3> HIDE DEF T
    <3> QED BY <3>3, <3>4, <3>5
  <2>2. PICK k \in T : \A l \in T : k <= l
    <3> HIDE DEF T
    <3> QED BY <2>1, LeastElement
  <2>3. k \in 1 .. Len(s) /\ s[k] \in S /\ Len(s) \in Nat
    BY <1>4
  <2>4. Behind(s, k) \subseteq Proc \ S
    <3>1. ASSUME NEW l \in 1 .. k - 1
          PROVE  s[l] \in Proc \ S
      <4>1. l \in 1 .. Len(s) /\ l < k
        BY <2>3
      <4>2. l \notin T
        BY <2>2, <4>1
      <4> QED BY <1>4, <4>1, <4>2
    <3> QED BY <3>1 DEF Behind
  <2>5. CanFinish(nd, s[k], Promised!FreeAfter(Behind(s, k), av, al))
    BY <1>5, <2>3 DEF InOrder
  <2>6. ASSUME NEW j \in Res
        PROVE  nd[s[k]][j] <= Promised!FreeAfter(Proc \ S, av, al)[j]
    <3> DEFINE B == Behind(s, k)
               C == Proc \ S
    <3> HIDE DEF B, C
    <3>1. Promised!FreeAfter(B, av, al)[j] <= Promised!FreeAfter(C, av, al)[j]
      BY <2>4, FreeMore DEF B, C
    <3>2. nd[s[k]][j] <= Promised!FreeAfter(B, av, al)[j]
      BY <2>5 DEF CanFinish, B
    <3>3. /\ Promised!FreeAfter(B, av, al)[j] \in Int
          /\ Promised!FreeAfter(C, av, al)[j] \in Int
      <4>1. /\ Promised!FreeAfter(B, av, al) \in [Res -> Int]
            /\ Promised!FreeAfter(C, av, al) \in [Res -> Int]
        BY <1>1, FreeType
      <4> QED BY <4>1
    <3>4. nd[s[k]][j] \in Int
      BY <1>4, <2>3
    <3>5. nd[s[k]][j] <= Promised!FreeAfter(C, av, al)[j]
      BY <3>1, <3>2, <3>3, <3>4
    <3> QED BY <3>5 DEF C
  <2> QED BY <2>3, <2>6
<1>9. ASSUME Promised!Safe(av, al, nd), F # Proc
      PROVE  FALSE
  <2> DEFINE S == Proc \ F
  <2>1. S \in SUBSET Proc /\ S # {} /\ Proc \ S = F
    BY <1>4, <1>9
  <2>2. PICK i \in S : \A j \in Res :
          nd[i][j] <= Promised!FreeAfter(Proc \ S, av, al)[j]
    <3> HIDE DEF S
    <3> QED BY <1>4, <1>9, <2>1 DEF Promised!Safe
  <2>3. CanFinish(st.need, i, st.work)
    BY <1>4, <1>6, <2>1, <2>2 DEF CanFinish
  <2> QED BY <1>3, <2>3 DEF Stuck, Idle, F
<1> QED BY <1>4, <1>5, <1>7, <1>8, <1>9

-----------------------------------------------------------------------------
(* The command loop                                                        *)

(* Requests that ask for resources and return none: Banker does not check  *)
(* that (see AllocationIsACount), and only the conservation of resources   *)
(* holds without it.                                                       *)
NonNegative == Requests \subseteq [Res -> Nat]

Typed ==
  /\ iAvailable \in [Res -> Int]
  /\ iAllocation \in [Proc -> [Res -> Int]]
  /\ iNeed \in [Proc -> [Res -> Int]]
  /\ iMax \in [Proc -> [Res -> Nat]]
  /\ bSafe \in BOOLEAN /\ cmd \in Command
  /\ pid \in Proc /\ req \in Requests \cup {[j \in Res |-> 0]}
  /\ pc \in {"prompt", "command", "read_pid", "read_request", "skip",
             "check", "tried", "end"}
  /\ eof \in BOOLEAN /\ long \in BOOLEAN
  /\ total \in [Res -> Nat]

(* The steps that leave the matrices alone.                                *)
Reading ==
  GetInput \/ Dispatch \/ ReadPid \/ ReadRequest \/ Refuse \/ Grant
    \/ SkipForEver \/ End

(* A request is a vector of numbers.                                       *)
LEMMA ReqType == Typed => req \in [Res -> Int] /\ (NonNegative => req \in [Res -> Nat])
<1> SUFFICES ASSUME Typed
             PROVE  req \in [Res -> Int] /\ (NonNegative => req \in [Res -> Nat])
  OBVIOUS
<1>1. Requests \subseteq [Res -> Int]
  BY BankerAssumption
<1>2. [j \in Res |-> 0] \in [Res -> Nat] /\ [j \in Res |-> 0] \in [Res -> Int]
  OBVIOUS
<1> QED BY <1>1, <1>2 DEF Typed, NonNegative

(* The trial, resource by resource.                                        *)
LEMMA GiveOnce ==
  ASSUME Typed, Give(1)
  PROVE  /\ iAvailable' \in [Res -> Int]
         /\ iAllocation' \in [Proc -> [Res -> Int]]
         /\ iNeed' \in [Proc -> [Res -> Int]]
         /\ \A j \in Res : iAvailable'[j] = iAvailable[j] - req[j]
         /\ \A k \in Proc, j \in Res :
              /\ iAllocation'[k][j] = IF k = pid THEN iAllocation[k][j] + req[j]
                                      ELSE iAllocation[k][j]
              /\ iNeed'[k][j] = IF k = pid THEN iNeed[k][j] - req[j]
                                ELSE iNeed[k][j]
<1>1. /\ req \in [Res -> Int] /\ iAvailable \in [Res -> Int] /\ pid \in Proc
      /\ iAllocation \in [Proc -> [Res -> Int]] /\ iNeed \in [Proc -> [Res -> Int]]
  BY ReqType DEF Typed
<1>2. \A j \in Res : /\ iAvailable[j] - 1 * req[j] = iAvailable[j] - req[j]
                      /\ \A x \in Int : x + 1 * req[j] = x + req[j]
                      /\ \A y \in Int : y - 1 * req[j] = y - req[j]
  BY <1>1
<1>3. /\ iAvailable' = [j \in Res |-> iAvailable[j] - 1 * req[j]]
      /\ iAllocation' = [iAllocation EXCEPT ![pid] =
                          [j \in Res |-> iAllocation[pid][j] + 1 * req[j]]]
      /\ iNeed' = [iNeed EXCEPT ![pid] =
                    [j \in Res |-> iNeed[pid][j] - 1 * req[j]]]
  BY <1>1 DEF Give
<1>4. /\ iAvailable' \in [Res -> Int]
      /\ \A j \in Res : iAvailable'[j] = iAvailable[j] - req[j]
  BY <1>1, <1>2, <1>3
<1>5. /\ iAllocation' \in [Proc -> [Res -> Int]]
      /\ \A k \in Proc, j \in Res :
           iAllocation'[k][j] = IF k = pid THEN iAllocation[k][j] + req[j]
                                ELSE iAllocation[k][j]
  BY <1>1, <1>2, <1>3
<1>6. /\ iNeed' \in [Proc -> [Res -> Int]]
      /\ \A k \in Proc, j \in Res :
           iNeed'[k][j] = IF k = pid THEN iNeed[k][j] - req[j]
                          ELSE iNeed[k][j]
  BY <1>1, <1>2, <1>3
<1> QED BY <1>4, <1>5, <1>6

(* The trial, as SafeAllocation writes it.                                 *)
LEMMA GiveExactly ==
  ASSUME Typed, Give(1)
  PROVE  /\ iAvailable' = [j \in Res |-> iAvailable[j] - req[j]]
         /\ iAllocation' = [iAllocation EXCEPT ![pid] =
                             [j \in Res |-> @[j] + req[j]]]
         /\ iNeed' = [iNeed EXCEPT ![pid] = [j \in Res |-> @[j] - req[j]]]
<1>1. /\ req \in [Res -> Int] /\ iAvailable \in [Res -> Int] /\ pid \in Proc
      /\ iAllocation \in [Proc -> [Res -> Int]] /\ iNeed \in [Proc -> [Res -> Int]]
  BY ReqType DEF Typed
<1>2. iAvailable' = [j \in Res |-> iAvailable[j] - req[j]]
  BY <1>1, GiveOnce
<1>3. iAllocation' = [iAllocation EXCEPT ![pid] = [j \in Res |-> @[j] + req[j]]]
  <2>1. [j \in Res |-> iAllocation[pid][j] + 1 * req[j]]
          = [j \in Res |-> iAllocation[pid][j] + req[j]]
    BY <1>1
  <2> QED BY <1>1, <2>1 DEF Give
<1>4. iNeed' = [iNeed EXCEPT ![pid] = [j \in Res |-> @[j] - req[j]]]
  <2>1. [j \in Res |-> iNeed[pid][j] - 1 * req[j]]
          = [j \in Res |-> iNeed[pid][j] - req[j]]
    BY <1>1
  <2> QED BY <1>1, <2>1 DEF Give
<1> QED BY <1>2, <1>3, <1>4

(* And the rollback, resource by resource.                                 *)
LEMMA GiveBack ==
  ASSUME Typed, Give(-1)
  PROVE  /\ iAvailable' \in [Res -> Int]
         /\ iAllocation' \in [Proc -> [Res -> Int]]
         /\ iNeed' \in [Proc -> [Res -> Int]]
         /\ \A j \in Res : iAvailable'[j] = iAvailable[j] + req[j]
         /\ \A k \in Proc, j \in Res :
              /\ iAllocation'[k][j] = IF k = pid THEN iAllocation[k][j] - req[j]
                                      ELSE iAllocation[k][j]
              /\ iNeed'[k][j] = IF k = pid THEN iNeed[k][j] + req[j]
                                ELSE iNeed[k][j]
<1>1. /\ req \in [Res -> Int] /\ iAvailable \in [Res -> Int] /\ pid \in Proc
      /\ iAllocation \in [Proc -> [Res -> Int]] /\ iNeed \in [Proc -> [Res -> Int]]
  BY ReqType DEF Typed
<1>2. \A j \in Res : /\ iAvailable[j] - (-1) * req[j] = iAvailable[j] + req[j]
                      /\ \A x \in Int : x + (-1) * req[j] = x - req[j]
                      /\ \A y \in Int : y - (-1) * req[j] = y + req[j]
  BY <1>1
<1>3. /\ iAvailable' = [j \in Res |-> iAvailable[j] - (-1) * req[j]]
      /\ iAllocation' = [iAllocation EXCEPT ![pid] =
                          [j \in Res |-> iAllocation[pid][j] + (-1) * req[j]]]
      /\ iNeed' = [iNeed EXCEPT ![pid] =
                    [j \in Res |-> iNeed[pid][j] - (-1) * req[j]]]
  BY <1>1 DEF Give
<1>4. /\ iAvailable' \in [Res -> Int]
      /\ \A j \in Res : iAvailable'[j] = iAvailable[j] + req[j]
  BY <1>1, <1>2, <1>3
<1>5. /\ iAllocation' \in [Proc -> [Res -> Int]]
      /\ \A k \in Proc, j \in Res :
           iAllocation'[k][j] = IF k = pid THEN iAllocation[k][j] - req[j]
                                ELSE iAllocation[k][j]
  BY <1>1, <1>2, <1>3
<1>6. /\ iNeed' \in [Proc -> [Res -> Int]]
      /\ \A k \in Proc, j \in Res :
           iNeed'[k][j] = IF k = pid THEN iNeed[k][j] + req[j]
                          ELSE iNeed[k][j]
  BY <1>1, <1>2, <1>3
<1> QED BY <1>4, <1>5, <1>6

(* Reading input and answering change no matrix.                           *)
LEMMA ReadingTyped ==
  ASSUME Typed, Reading
  PROVE  /\ UNCHANGED <<matrices, iMax, bSafe, total>>
         /\ pc' # "tried"
         /\ Typed'
<1>1. UNCHANGED <<matrices, iMax, bSafe, total>> /\ pc' # "tried"
  BY DEF Typed, Reading, GetInput, Dispatch, ReadPid, ReadRequest, Refuse, Grant,
         SkipForEver, End, Goto, vars
<1>2. /\ cmd' \in Command /\ pid' \in Proc
      /\ req' \in Requests \cup {[j \in Res |-> 0]}
      /\ pc' \in {"prompt", "command", "read_pid", "read_request", "skip",
             "check", "tried", "end"}
      /\ eof' \in BOOLEAN /\ long' \in BOOLEAN
  BY DEF Typed, Reading, GetInput, Dispatch, ReadPid, ReadRequest, Refuse, Grant,
         SkipForEver, End, Goto, vars, Command
<1> QED BY <1>1, <1>2 DEF Typed, matrices

(* The initial states.                                                     *)
LEMMA InitTyped == Init => Typed /\ ResourcesConserved /\ TypeOK /\ pc = "prompt"
<1> SUFFICES ASSUME Init
             PROVE  Typed /\ ResourcesConserved /\ TypeOK /\ pc = "prompt"
  OBVIOUS
<1>1. PICK sys \in Systems :
        /\ iAvailable = sys.available
        /\ iAllocation = sys.allocation
        /\ iMax = sys.max
        /\ iNeed = [i \in Proc |->
                    [j \in Res |-> sys.max[i][j] - sys.allocation[i][j]]]
  BY DEF Init
<1>2. /\ iAvailable \in [Res -> Nat]
      /\ iAllocation \in [Proc -> [Res -> Nat]]
      /\ iMax \in [Proc -> [Res -> Nat]]
      /\ \A i \in Proc, j \in Res : iAllocation[i][j] <= iMax[i][j]
  BY <1>1, BankerAssumption
<1>3. iNeed = [i \in Proc |-> [j \in Res |-> iMax[i][j] - iAllocation[i][j]]]
  BY <1>1
<1>4. iNeed \in [Proc -> [Res -> Nat]]
  <2>1. \A i \in Proc, j \in Res : iMax[i][j] - iAllocation[i][j] \in Nat
    BY <1>2
  <2> QED BY <1>3, <2>1
<1>5. /\ bSafe \in BOOLEAN /\ cmd \in Command /\ pid \in Proc
      /\ req = [j \in Res |-> 0] /\ pc = "prompt"
      /\ eof \in BOOLEAN /\ long \in BOOLEAN
      /\ total = Total(iAvailable, iAllocation)
  <2>1. bSafe \in BOOLEAN
    BY DEF Init, IsSafety
  <2>2. 0 \in Proc
    BY Size DEF Proc
  <2> QED BY <2>1, <2>2 DEF Init
<1>6. total \in [Res -> Nat]
  BY <1>2, <1>5, TotalIsNat
<1>7. ResourcesConserved
  BY <1>3, <1>5 DEF ResourcesConserved
<1>8. TypeOK
  BY <1>2, <1>4, <1>5, <1>6 DEF TypeOK
<1>9. /\ iAvailable \in [Res -> Int]
      /\ iAllocation \in [Proc -> [Res -> Int]]
      /\ iNeed \in [Proc -> [Res -> Int]]
  BY <1>2, <1>4
<1>10. Typed
  BY <1>2, <1>5, <1>6, <1>9 DEF Typed
<1> QED BY <1>5, <1>7, <1>8, <1>10

(* The steps, those that change no matrix together.                        *)
LEMMA NextCases ==
  ASSUME [Next]_vars
  PROVE  UNCHANGED vars \/ Reading \/ TryAllocation \/ Rollback
BY DEF Next, Reading

(* The types and the conservation of resources are kept together.          *)
LEMMA NextTyped ==
  ASSUME Typed, ResourcesConserved, [Next]_vars
  PROVE  Typed' /\ ResourcesConserved'
<1>1. CASE UNCHANGED vars
  BY <1>1 DEF vars, matrices, Typed, ResourcesConserved
<1>2. CASE Reading
  <2>1. Typed' /\ UNCHANGED <<iAvailable, iAllocation, iNeed, iMax, total>>
    BY <1>2, ReadingTyped DEF matrices
  <2> QED BY <2>1 DEF ResourcesConserved
<1>3. CASE TryAllocation
  <2>1. Give(1) /\ UNCHANGED <<iMax, bSafe, cmd, pid, req, eof, long, total>> /\ pc' = "tried"
    BY <1>3 DEF TryAllocation, Goto
  <2>2. Typed'
    BY <2>1, GiveOnce DEF Typed
  <2>3. Total(iAvailable', iAllocation') = Total(iAvailable, iAllocation)
    <3>1. /\ iAvailable \in [Res -> Int] /\ iAllocation \in [Proc -> [Res -> Int]]
          /\ pid \in Proc /\ req \in [Res -> Int]
      BY ReqType DEF Typed
    <3>2. /\ iAvailable' \in [Res -> Int]
          /\ iAllocation' \in [Proc -> [Res -> Int]]
          /\ Given(iAvailable, iAllocation, pid, req, iAvailable', iAllocation')
      BY <2>1, <3>1, GiveOnce DEF Given
    <3> QED BY <3>2, TotalGiven
  <2>4. \A i \in Proc, j \in Res : iNeed'[i][j] = iMax'[i][j] - iAllocation'[i][j]
    <3>1. ASSUME NEW i \in Proc, NEW j \in Res
          PROVE  iNeed'[i][j] = iMax'[i][j] - iAllocation'[i][j]
      <4>1. /\ iNeed[i][j] = iMax[i][j] - iAllocation[i][j]
            /\ iNeed[i][j] \in Int /\ iMax[i][j] \in Int /\ iAllocation[i][j] \in Int
            /\ req[j] \in Int /\ iMax' = iMax
        BY <2>1, ReqType DEF ResourcesConserved, Typed
      <4>2. /\ iAllocation'[i][j] = IF i = pid THEN iAllocation[i][j] + req[j]
                                    ELSE iAllocation[i][j]
            /\ iNeed'[i][j] = IF i = pid THEN iNeed[i][j] - req[j] ELSE iNeed[i][j]
        BY <2>1, GiveOnce
      <4> QED BY <4>1, <4>2
    <3> QED BY <3>1
  <2> QED BY <2>1, <2>2, <2>3, <2>4 DEF ResourcesConserved
<1>4. CASE Rollback
  <2>1. Give(-1) /\ UNCHANGED <<iMax, bSafe, cmd, pid, req, eof, long, total>> /\ pc' = "prompt"
    BY <1>4 DEF Rollback, Goto
  <2>2. Typed'
    BY <2>1, GiveBack DEF Typed
  <2>3. Total(iAvailable', iAllocation') = Total(iAvailable, iAllocation)
    <3> DEFINE r == [j \in Res |-> 0 - req[j]]
    <3>1. /\ iAvailable \in [Res -> Int] /\ iAllocation \in [Proc -> [Res -> Int]]
          /\ pid \in Proc /\ req \in [Res -> Int]
      BY ReqType DEF Typed
    <3>2. r \in [Res -> Int] /\ \A j \in Res : r[j] = 0 - req[j]
      BY <3>1
    <3> HIDE DEF r
    <3>3. /\ iAvailable' \in [Res -> Int]
          /\ iAllocation' \in [Proc -> [Res -> Int]]
      BY <2>1, GiveBack
    <3>4. ASSUME NEW j \in Res
          PROVE  iAvailable'[j] = iAvailable[j] - r[j]
      <4>1. iAvailable'[j] = iAvailable[j] + req[j]
        BY <2>1, GiveBack
      <4> QED BY <3>1, <3>2, <4>1
    <3>5. ASSUME NEW k \in Proc, NEW j \in Res
          PROVE  iAllocation'[k][j] = IF k = pid THEN iAllocation[k][j] + r[j]
                                      ELSE iAllocation[k][j]
      <4>1. iAllocation'[k][j] = IF k = pid THEN iAllocation[k][j] - req[j]
                                 ELSE iAllocation[k][j]
        BY <2>1, GiveBack
      <4> QED BY <3>1, <3>2, <4>1
    <3>6. Given(iAvailable, iAllocation, pid, r, iAvailable', iAllocation')
      BY <3>1, <3>2, <3>3, <3>4, <3>5 DEF Given
    <3> QED BY <3>6, TotalGiven
  <2>4. \A i \in Proc, j \in Res : iNeed'[i][j] = iMax'[i][j] - iAllocation'[i][j]
    <3>1. ASSUME NEW i \in Proc, NEW j \in Res
          PROVE  iNeed'[i][j] = iMax'[i][j] - iAllocation'[i][j]
      <4>1. /\ iNeed[i][j] = iMax[i][j] - iAllocation[i][j]
            /\ iNeed[i][j] \in Int /\ iMax[i][j] \in Int /\ iAllocation[i][j] \in Int
            /\ req[j] \in Int /\ iMax' = iMax
        BY <2>1, ReqType DEF ResourcesConserved, Typed
      <4>2. /\ iAllocation'[i][j] = IF i = pid THEN iAllocation[i][j] - req[j]
                                    ELSE iAllocation[i][j]
            /\ iNeed'[i][j] = IF i = pid THEN iNeed[i][j] + req[j] ELSE iNeed[i][j]
        BY <2>1, GiveBack
      <4> QED BY <4>1, <4>2
    <3> QED BY <3>1
  <2> QED BY <2>1, <2>2, <2>3, <2>4 DEF ResourcesConserved
<1> QED BY <1>1, <1>2, <1>3, <1>4, NextCases

(* They hold in every state.                                               *)
LEMMA TypedInvariance == Spec => [](Typed /\ ResourcesConserved)
<1>1. Init => Typed /\ ResourcesConserved
  BY InitTyped
<1>2. Typed /\ ResourcesConserved /\ [Next]_vars => (Typed /\ ResourcesConserved)'
  BY NextTyped
<1> QED BY <1>1, <1>2, PTL DEF Spec

(* No resource appears or is lost, whatever numbers are requested, and     *)
(* iNeed stays what iMax leaves above iAllocation (banker.c:240 and 256).  *)
THEOREM Conserved == Spec => []ResourcesConserved
BY TypedInvariance, PTL

(* Between the trial and the rollback the process holds what it asked for. *)
CountInv ==
  /\ TypeOK
  /\ pc = "tried" => \A j \in Res : req[j] <= iAllocation[pid][j]
  /\ pc \in {"check", "tried"} => req \in Requests

(* Counts are numbers.                                                     *)
LEMMA CountsTyped == TypeOK => Typed
<1> SUFFICES ASSUME TypeOK
             PROVE  Typed
  OBVIOUS
<1>1. /\ iAvailable \in [Res -> Int]
      /\ iAllocation \in [Proc -> [Res -> Int]]
      /\ iNeed \in [Proc -> [Res -> Int]]
  BY DEF TypeOK
<1> QED BY <1>1 DEF TypeOK, Typed

(* With requests that are not negative nothing becomes negative.           *)
LEMMA NextCount ==
  ASSUME NonNegative, CountInv, [Next]_vars
  PROVE  CountInv'
<1>1. Typed /\ req \in [Res -> Nat] /\ pid \in Proc
      /\ iAvailable \in [Res -> Nat] /\ iAllocation \in [Proc -> [Res -> Nat]]
      /\ iNeed \in [Proc -> [Res -> Nat]]
  BY CountsTyped, ReqType DEF CountInv, TypeOK
<1>2. CASE UNCHANGED vars
  BY <1>2 DEF vars, matrices, CountInv, TypeOK
<1>3. CASE Reading
  <2>1. /\ Typed' /\ pc' # "tried"
        /\ UNCHANGED <<iAvailable, iAllocation, iNeed, iMax>>
    BY <1>1, <1>3, ReadingTyped DEF matrices
  <2>2. iMax \in [Proc -> [Res -> Nat]]
    BY DEF CountInv, TypeOK
  <2>3. pc' = "check" => req' \in Requests
    BY <1>3 DEF CountInv, Reading, GetInput, Dispatch, ReadPid, ReadRequest,
                Refuse, Grant, SkipForEver, End, Goto, vars
  <2> QED BY <1>1, <2>1, <2>2, <2>3 DEF CountInv, TypeOK, Typed
<1>4. CASE TryAllocation
  <2>1. /\ Give(1) /\ UNCHANGED <<iMax, bSafe, cmd, pid, req, eof, long, total>>
        /\ pc' = "tried" /\ Within(req, iNeed[pid]) /\ Within(req, iAvailable)
        /\ req \in Requests
    BY <1>4 DEF TryAllocation, Goto, CountInv
  <2>2. iAvailable' \in [Res -> Nat]
    <3>1. \A j \in Res : iAvailable'[j] \in Nat
      BY <1>1, <2>1, GiveOnce DEF Within
    <3> QED BY <1>1, <2>1, <3>1, GiveOnce
  <2>3. /\ iAllocation' \in [Proc -> [Res -> Nat]]
        /\ \A j \in Res : req'[j] <= iAllocation'[pid'][j]
    <3>1. ASSUME NEW k \in Proc, NEW j \in Res
          PROVE  /\ iAllocation'[k][j] \in Nat
                 /\ k = pid => req[j] <= iAllocation'[k][j]
      <4>1. iAllocation'[k][j] = IF k = pid THEN iAllocation[k][j] + req[j]
                                 ELSE iAllocation[k][j]
        BY <1>1, <2>1, GiveOnce
      <4>2. iAllocation[k][j] \in Nat /\ req[j] \in Nat
        BY <1>1
      <4> QED BY <4>1, <4>2
    <3> QED BY <1>1, <2>1, <3>1, GiveOnce
  <2>4. iNeed' \in [Proc -> [Res -> Nat]]
    <3>1. ASSUME NEW k \in Proc, NEW j \in Res
          PROVE  iNeed'[k][j] \in Nat
      <4>1. iNeed'[k][j] = IF k = pid THEN iNeed[k][j] - req[j] ELSE iNeed[k][j]
        BY <1>1, <2>1, GiveOnce
      <4>2. iNeed[k][j] \in Nat /\ req[j] \in Nat /\ req[j] <= iNeed[pid][j]
        BY <1>1, <2>1 DEF Within
      <4> QED BY <4>1, <4>2
    <3> QED BY <1>1, <2>1, <3>1, GiveOnce
  <2> QED BY <2>1, <2>2, <2>3, <2>4 DEF CountInv, TypeOK
<1>5. CASE Rollback
  <2>1. /\ Give(-1) /\ UNCHANGED <<iMax, bSafe, cmd, pid, req, eof, long, total>>
        /\ pc' = "prompt" /\ \A j \in Res : req[j] <= iAllocation[pid][j]
    BY <1>5 DEF Rollback, Goto, CountInv
  <2>2. iAvailable' \in [Res -> Nat]
    <3>1. \A j \in Res : iAvailable'[j] \in Nat
      BY <1>1, <2>1, GiveBack
    <3> QED BY <1>1, <2>1, <3>1, GiveBack
  <2>3. iAllocation' \in [Proc -> [Res -> Nat]]
    <3>1. ASSUME NEW k \in Proc, NEW j \in Res
          PROVE  iAllocation'[k][j] \in Nat
      <4>1. iAllocation'[k][j] = IF k = pid THEN iAllocation[k][j] - req[j]
                                 ELSE iAllocation[k][j]
        BY <1>1, <2>1, GiveBack
      <4>2. /\ iAllocation[k][j] \in Nat /\ req[j] \in Nat
            /\ req[j] <= iAllocation[pid][j]
        BY <1>1, <2>1
      <4> QED BY <4>1, <4>2
    <3> QED BY <1>1, <2>1, <3>1, GiveBack
  <2>4. iNeed' \in [Proc -> [Res -> Nat]]
    <3>1. ASSUME NEW k \in Proc, NEW j \in Res
          PROVE  iNeed'[k][j] \in Nat
      <4>1. iNeed'[k][j] = IF k = pid THEN iNeed[k][j] + req[j] ELSE iNeed[k][j]
        BY <1>1, <2>1, GiveBack
      <4>2. iNeed[k][j] \in Nat /\ req[j] \in Nat
        BY <1>1
      <4> QED BY <4>1, <4>2
    <3> QED BY <1>1, <2>1, <3>1, GiveBack
  <2> QED BY <2>1, <2>2, <2>3, <2>4 DEF CountInv, TypeOK
<1> QED BY <1>2, <1>3, <1>4, <1>5, NextCases

(* The counts in every state.                                              *)
LEMMA CountInvariance == ASSUME NonNegative PROVE Spec => []CountInv
<1>1. Init => CountInv
  BY InitTyped DEF CountInv
<1>2. CountInv /\ [Next]_vars => CountInv'
  BY NextCount
<1> QED BY <1>1, <1>2, PTL DEF Spec

(* As long as no number of a request is negative, which Banker reads with  *)
(* scanf and does not check (banker.c:211 and 222), nothing available,     *)
(* held or needed is ever negative, a trial that will be rolled back       *)
(* included.                                                               *)
THEOREM Counts == ASSUME NonNegative PROVE Spec => []TypeOK
<1>1. CountInv => TypeOK
  BY DEF CountInv
<1> QED BY <1>1, CountInvariance, PTL

(* The property CheckIsExact states, of one state.                         *)
LEMMA SafetyOfCounts == TypeOK => SafetyCheckExact
<1> SUFFICES ASSUME TypeOK
             PROVE  SafetyCheckExact
  OBVIOUS
<1>1. /\ iAvailable \in [Res -> Int] /\ iAllocation \in [Proc -> [Res -> Nat]]
      /\ iNeed \in [Proc -> [Res -> Int]]
  BY DEF TypeOK
<1>2. /\ IsSafety <=> Promised!Safe(iAvailable, iAllocation, iNeed)
      /\ InOrder(SafeSeq(iAvailable, iAllocation, iNeed),
                 iAvailable, iAllocation, iNeed)
  BY <1>1, SafetyCheck DEF IsSafety
<1> QED BY <1>2 DEF SafetyCheckExact, InOrder, Behind

(* As long as no request is negative (see Counts), IsSafety (banker.c:129) *)
(* says yes exactly when every group of processes has a member that can    *)
(* finish once the others have, and the sequence it prints is an order in  *)
(* which the processes in it can finish.                                   *)
THEOREM CheckIsExact == ASSUME NonNegative PROVE Spec => []SafetyCheckExact
<1>1. TypeOK => SafetyCheckExact
  BY SafetyOfCounts
<1> QED BY <1>1, Counts, PTL

(* The matrices before the trial.                                          *)
AvailBefore == [j \in Res |-> iAvailable[j] + req[j]]
AllocBefore == [iAllocation EXCEPT ![pid] = [j \in Res |-> @[j] - req[j]]]
NeedBefore == [iNeed EXCEPT ![pid] = [j \in Res |-> @[j] + req[j]]]

(* A system that was safe at first is safe, and was so before the trial.   *)
SafeInv ==
  bSafe =>
    /\ pc # "tried" => Promised!Safe(iAvailable, iAllocation, iNeed)
    /\ pc = "tried" => Promised!Safe(AvailBefore, AllocBefore, NeedBefore)

(* Before the trial the matrices were as AvailBefore and the others say.   *)
LEMMA TrialUndone ==
  ASSUME Typed, TryAllocation
  PROVE  /\ AvailBefore' = iAvailable
         /\ AllocBefore' = iAllocation
         /\ NeedBefore' = iNeed
<1>1. /\ Give(1) /\ req' = req /\ pid' = pid
  BY DEF TryAllocation
<1>2. /\ iAvailable \in [Res -> Int] /\ iAllocation \in [Proc -> [Res -> Int]]
      /\ iNeed \in [Proc -> [Res -> Int]] /\ pid \in Proc /\ req \in [Res -> Int]
  BY ReqType DEF Typed
<1>3. /\ iAvailable' \in [Res -> Int] /\ iAllocation' \in [Proc -> [Res -> Int]]
      /\ iNeed' \in [Proc -> [Res -> Int]]
  BY <1>1, GiveOnce
<1>4. AvailBefore' = iAvailable
  <2>1. ASSUME NEW j \in Res
        PROVE  AvailBefore'[j] = iAvailable[j]
    <3>1. iAvailable'[j] = iAvailable[j] - req[j]
      BY <1>1, GiveOnce
    <3>2. AvailBefore'[j] = iAvailable'[j] + req[j]
      BY <1>1 DEF AvailBefore
    <3> QED BY <1>2, <3>1, <3>2
  <2>2. AvailBefore' = [j \in Res |-> AvailBefore'[j]]
    BY DEF AvailBefore
  <2> QED BY <1>2, <2>1, <2>2
<1>5. AllocBefore' = iAllocation
  <2>1. ASSUME NEW j \in Res
        PROVE  iAllocation'[pid][j] - req[j] = iAllocation[pid][j]
    <3>1. iAllocation'[pid][j] = iAllocation[pid][j] + req[j]
      BY <1>1, <1>2, GiveOnce
    <3> QED BY <1>2, <3>1
  <2>2. AllocBefore' = [iAllocation' EXCEPT ![pid] =
                          [j \in Res |-> iAllocation'[pid][j] - req[j]]]
    BY <1>1, <1>2, <1>3 DEF AllocBefore
  <2>3. [j \in Res |-> iAllocation'[pid][j] - req[j]] = iAllocation[pid]
    BY <1>2, <2>1
  <2>4. \A k \in Proc \ {pid} : iAllocation'[k] = iAllocation[k]
    <3>1. ASSUME NEW k \in Proc \ {pid}
          PROVE  iAllocation'[k] = iAllocation[k]
      <4>1. \A j \in Res : iAllocation'[k][j] = iAllocation[k][j]
        BY <1>1, GiveOnce
      <4> QED BY <1>2, <1>3, <4>1
    <3> QED BY <3>1
  <2> QED BY <1>2, <1>3, <2>2, <2>3, <2>4
<1>6. NeedBefore' = iNeed
  <2>1. ASSUME NEW j \in Res
        PROVE  iNeed'[pid][j] + req[j] = iNeed[pid][j]
    <3>1. iNeed'[pid][j] = iNeed[pid][j] - req[j]
      BY <1>1, <1>2, GiveOnce
    <3> QED BY <1>2, <3>1
  <2>2. NeedBefore' = [iNeed' EXCEPT ![pid] =
                         [j \in Res |-> iNeed'[pid][j] + req[j]]]
    BY <1>1, <1>2, <1>3 DEF NeedBefore
  <2>3. [j \in Res |-> iNeed'[pid][j] + req[j]] = iNeed[pid]
    BY <1>2, <2>1
  <2>4. \A k \in Proc \ {pid} : iNeed'[k] = iNeed[k]
    <3>1. ASSUME NEW k \in Proc \ {pid}
          PROVE  iNeed'[k] = iNeed[k]
      <4>1. \A j \in Res : iNeed'[k][j] = iNeed[k][j]
        BY <1>1, GiveOnce
      <4> QED BY <1>2, <1>3, <4>1
    <3> QED BY <3>1
  <2> QED BY <1>2, <1>3, <2>2, <2>3, <2>4
<1> QED BY <1>4, <1>5, <1>6

(* The rollback restores them.                                             *)
LEMMA RollbackUndoes ==
  ASSUME Typed, Rollback
  PROVE  /\ iAvailable' = AvailBefore
         /\ iAllocation' = AllocBefore
         /\ iNeed' = NeedBefore
<1>1. Give(-1)
  BY DEF Rollback
<1>2. /\ iAvailable \in [Res -> Int] /\ iAllocation \in [Proc -> [Res -> Int]]
      /\ iNeed \in [Proc -> [Res -> Int]] /\ pid \in Proc /\ req \in [Res -> Int]
  BY ReqType DEF Typed
<1>3. /\ iAvailable' \in [Res -> Int] /\ iAllocation' \in [Proc -> [Res -> Int]]
      /\ iNeed' \in [Proc -> [Res -> Int]]
  BY <1>1, GiveBack
<1>4. /\ AvailBefore \in [Res -> Int] /\ AllocBefore \in [Proc -> [Res -> Int]]
      /\ NeedBefore \in [Proc -> [Res -> Int]]
  BY <1>2 DEF AvailBefore, AllocBefore, NeedBefore
<1>5. \A j \in Res : iAvailable'[j] = AvailBefore[j]
  BY <1>1, GiveBack DEF AvailBefore
<1>6. \A k \in Proc, j \in Res : iAllocation'[k][j] = AllocBefore[k][j]
  <2>1. \A k \in Proc, j \in Res :
          AllocBefore[k][j] = IF k = pid THEN iAllocation[k][j] - req[j]
                              ELSE iAllocation[k][j]
    BY <1>2 DEF AllocBefore
  <2> QED BY <1>1, <2>1, GiveBack
<1>7. \A k \in Proc, j \in Res : iNeed'[k][j] = NeedBefore[k][j]
  <2>1. \A k \in Proc, j \in Res :
          NeedBefore[k][j] = IF k = pid THEN iNeed[k][j] + req[j]
                              ELSE iNeed[k][j]
    BY <1>2 DEF NeedBefore
  <2> QED BY <1>1, <2>1, GiveBack
<1>8. /\ \A k \in Proc : iAllocation'[k] = AllocBefore[k]
      /\ \A k \in Proc : iNeed'[k] = NeedBefore[k]
  BY <1>3, <1>4, <1>6, <1>7
<1>9. iAvailable' = AvailBefore
  BY <1>3, <1>4, <1>5
<1>10. iAllocation' = AllocBefore
  BY <1>3, <1>4, <1>8
<1>11. iNeed' = NeedBefore
  BY <1>3, <1>4, <1>8
<1> QED BY <1>9, <1>10, <1>11

(* Every step keeps a safe system safe.                                    *)
LEMMA NextSafe ==
  ASSUME NonNegative, CountInv, SafeInv, [Next]_vars
  PROVE  SafeInv'
<1>1. TypeOK /\ Typed /\ SafetyCheckExact
  BY CountsTyped, SafetyOfCounts DEF CountInv
<1>2. CASE UNCHANGED vars
  BY <1>2 DEF vars, matrices, SafeInv, AvailBefore, AllocBefore, NeedBefore
<1>3. CASE Reading
  <2>1. /\ UNCHANGED <<iAvailable, iAllocation, iNeed, bSafe>>
        /\ pc' # "tried"
    BY <1>1, <1>3, ReadingTyped DEF matrices
  <2>2. CASE pc = "tried"
    <3>1. IsSafety
      BY <1>3, <2>2 DEF Reading, GetInput, Dispatch, ReadPid, ReadRequest, Refuse,
                        Grant, SkipForEver, End, Goto
    <3>2. Promised!Safe(iAvailable, iAllocation, iNeed)
      BY <1>1, <3>1 DEF SafetyCheckExact
    <3> QED BY <2>1, <3>2 DEF SafeInv
  <2>3. CASE pc # "tried"
    BY <2>1, <2>3 DEF SafeInv
  <2> QED BY <2>2, <2>3
<1>4. CASE TryAllocation
  <2>1. bSafe' = bSafe /\ pc # "tried" /\ pc' = "tried"
    BY <1>4 DEF TryAllocation, Goto
  <2> QED BY <1>1, <1>4, <2>1, TrialUndone DEF SafeInv
<1>5. CASE Rollback
  <2>1. bSafe' = bSafe /\ pc = "tried" /\ pc' # "tried"
    BY <1>5 DEF Rollback, Goto
  <2> QED BY <1>1, <1>5, <2>1, RollbackUndoes DEF SafeInv
<1> QED BY <1>2, <1>3, <1>4, <1>5, NextCases

(* As long as no request is negative (see Counts), a system that was safe  *)
(* when main started is safe at each prompt: the trial is rolled back or   *)
(* leaves it safe (banker.c:248).  With negative requests it need not be:  *)
(* a process that has given back more than it had owes resources, and      *)
(* IsSafety, which adds up what the processes hold, can say yes where a    *)
(* group is stuck.                                                         *)
THEOREM SafetyKept == ASSUME NonNegative PROVE Spec => []StaysSafe
<1>1. Init => CountInv /\ SafeInv
  <2> SUFFICES ASSUME Init
               PROVE  CountInv /\ SafeInv
    OBVIOUS
  <2>1. CountInv /\ TypeOK /\ pc # "tried" /\ bSafe = IsSafety
    BY InitTyped DEF CountInv, Init
  <2>2. bSafe => Promised!Safe(iAvailable, iAllocation, iNeed)
    BY <2>1, SafetyOfCounts DEF SafetyCheckExact
  <2> QED BY <2>1, <2>2 DEF SafeInv
<1>2. CountInv /\ SafeInv /\ [Next]_vars => (CountInv /\ SafeInv)'
  BY NextCount, NextSafe
<1>3. CountInv /\ SafeInv => StaysSafe
  BY DEF SafeInv, StaysSafe
<1> QED BY <1>1, <1>2, <1>3, PTL DEF Spec

-----------------------------------------------------------------------------
(* The refinement of SafeAllocation                                        *)

MappedAvail == [j \in Res |-> iAvailable[j] + Back * req[j]]
MappedAlloc == [iAllocation EXCEPT ![pid] = [j \in Res |-> @[j] - Back * req[j]]]
MappedNeed == [iNeed EXCEPT ![pid] = [j \in Res |-> @[j] + Back * req[j]]]

(* The matrices, or those before a trial that will be rolled back.         *)
MappedMatrices ==
  /\ ~Doomed => /\ MappedAvail = iAvailable
                /\ MappedAlloc = iAllocation
                /\ MappedNeed = iNeed
  /\ Doomed => /\ MappedAvail = AvailBefore
               /\ MappedAlloc = AllocBefore
               /\ MappedNeed = NeedBefore

(* What SafeAllocation is shown, in this state ...                         *)
LEMMA Mapping == Typed => MappedMatrices
<1> SUFFICES ASSUME Typed
    PROVE  /\ ~Doomed => /\ MappedAvail = iAvailable
                         /\ MappedAlloc = iAllocation
                         /\ MappedNeed = iNeed
           /\ Doomed => /\ MappedAvail = AvailBefore
                        /\ MappedAlloc = AllocBefore
                        /\ MappedNeed = NeedBefore
  BY DEF MappedMatrices
<1>1. /\ iAvailable \in [Res -> Int] /\ iAllocation \in [Proc -> [Res -> Int]]
      /\ iNeed \in [Proc -> [Res -> Int]] /\ pid \in Proc /\ req \in [Res -> Int]
  BY ReqType DEF Typed
<1>2. CASE ~Doomed
  <2>1. Back = 0
    BY <1>2 DEF Back
  <2>2. /\ \A j \in Res : iAvailable[j] + Back * req[j] = iAvailable[j]
        /\ \A j \in Res : iAllocation[pid][j] - Back * req[j] = iAllocation[pid][j]
        /\ \A j \in Res : iNeed[pid][j] + Back * req[j] = iNeed[pid][j]
    BY <1>1, <2>1
  <2>3. MappedAvail = iAvailable
    BY <1>1, <2>2 DEF MappedAvail
  <2>4. MappedAlloc = iAllocation
    <3>1. [j \in Res |-> iAllocation[pid][j] - Back * req[j]] = iAllocation[pid]
      BY <1>1, <2>2
    <3> QED BY <1>1, <3>1 DEF MappedAlloc
  <2>5. MappedNeed = iNeed
    <3>1. [j \in Res |-> iNeed[pid][j] + Back * req[j]] = iNeed[pid]
      BY <1>1, <2>2
    <3> QED BY <1>1, <3>1 DEF MappedNeed
  <2> QED BY <1>2, <2>3, <2>4, <2>5
<1>3. CASE Doomed
  <2>1. Back = 1
    BY <1>3 DEF Back
  <2>2. \A j \in Res : Back * req[j] = req[j]
    BY <1>1, <2>1
  <2>3. MappedAvail = AvailBefore
    BY <2>2 DEF MappedAvail, AvailBefore
  <2>4. MappedAlloc = AllocBefore
    <3>1. [j \in Res |-> iAllocation[pid][j] - Back * req[j]]
            = [j \in Res |-> iAllocation[pid][j] - req[j]]
      BY <2>2
    <3> QED BY <1>1, <3>1 DEF MappedAlloc, AllocBefore
  <2>5. MappedNeed = NeedBefore
    <3>1. [j \in Res |-> iNeed[pid][j] + Back * req[j]]
            = [j \in Res |-> iNeed[pid][j] + req[j]]
      BY <2>2
    <3> QED BY <1>1, <3>1 DEF MappedNeed, NeedBefore
  <2> QED BY <1>3, <2>3, <2>4, <2>5
<1> QED BY <1>2, <1>3

(* ... and in the next one.                                                *)
LEMMA MappingNext == TypeOK' => Typed' /\ MappedMatrices'
<1>1. TypeOK => Typed /\ MappedMatrices
  BY CountsTyped, Mapping
<1> QED BY <1>1, PTL

(* The safety check of the next state.                                     *)
LEMMA SafetyNext == TypeOK' => (IsSafety' <=> Promised!Safe(iAvailable, iAllocation, iNeed)')
<1>1. TypeOK => (IsSafety <=> Promised!Safe(iAvailable, iAllocation, iNeed))
  BY SafetyOfCounts DEF SafetyCheckExact
<1> QED BY <1>1, PTL

MappedVars == <<MappedAvail, MappedAlloc, MappedNeed>>

(* Every step is a step of SafeAllocation or a stutter.                    *)
LEMMA AllocStep ==
  ASSUME NonNegative, CountInv, CountInv', [Next]_vars
  PROVE  [Promised!AllocNext]_MappedVars
<1>1. /\ Typed /\ TypeOK /\ TypeOK' /\ MappedMatrices /\ MappedMatrices'
  <2>1. TypeOK /\ TypeOK'
    BY DEF CountInv
  <2> QED BY <2>1, CountsTyped, Mapping, MappingNext
<1>2. CASE UNCHANGED vars
  BY <1>2 DEF vars, matrices, MappedVars, MappedAvail, MappedAlloc, MappedNeed,
              Back, Doomed, IsSafety
<1>3. CASE Reading
  <2>1. ~Doomed /\ ~Doomed'
    <3>1. pc' # "tried"
      BY <1>1, <1>3, ReadingTyped
    <3>2. pc = "tried" => IsSafety
      BY <1>3 DEF Reading, GetInput, Dispatch, ReadPid, ReadRequest, Refuse,
                  Grant, SkipForEver, End, Goto
    <3> QED BY <3>1, <3>2 DEF Doomed
  <2>2. UNCHANGED <<iAvailable, iAllocation, iNeed>>
    BY <1>1, <1>3, ReadingTyped DEF matrices
  <2> QED BY <1>1, <2>1, <2>2 DEF MappedMatrices, MappedVars
<1>4. CASE TryAllocation
  <2>1. ~Doomed
    BY <1>4 DEF Doomed, TryAllocation, Goto
  <2>2. CASE Doomed'
    BY <1>1, <1>4, <2>1, <2>2, TrialUndone DEF MappedMatrices, MappedVars
  <2>3. CASE ~Doomed'
    <3>1. /\ pid \in Proc /\ req \in Requests /\ pc' = "tried" /\ Give(1)
          /\ Within(req, iNeed[pid]) /\ Within(req, iAvailable)
      BY <1>1, <1>4 DEF CountInv, TryAllocation, Goto, Typed
    <3>2. Promised!Safe(iAvailable, iAllocation, iNeed)'
      BY <1>1, <2>3, <3>1, SafetyNext DEF Doomed
    <3>3. /\ iAvailable' = [j \in Res |-> iAvailable[j] - req[j]]
          /\ iAllocation' = [iAllocation EXCEPT ![pid] =
                              [j \in Res |-> @[j] + req[j]]]
          /\ iNeed' = [iNeed EXCEPT ![pid] = [j \in Res |-> @[j] - req[j]]]
      BY <1>1, <3>1, GiveExactly
    <3>4. PICK i \in Proc, r \in Requests : i = pid /\ r = req
      BY <3>1
    <3>5. Promised!Grant(i, r)
      BY <1>1, <2>1, <2>3, <3>1, <3>2, <3>3, <3>4
         DEF Promised!Grant, MappedMatrices, Within, MappedAvail, MappedAlloc,
             MappedNeed
    <3>6. i \in Promised!Proc
      BY DEF Promised!Proc, Proc
    <3>7. Promised!AllocNext
      BY <3>5, <3>6 DEF Promised!AllocNext
    <3> QED BY <3>7
  <2> QED BY <2>2, <2>3
<1>5. CASE Rollback
  <2>1. Doomed /\ ~Doomed'
    BY <1>5 DEF Doomed, Rollback, Goto
  <2> QED BY <1>1, <1>5, <2>1, RollbackUndoes DEF MappedMatrices, MappedVars
<1> QED BY <1>2, <1>3, <1>4, <1>5, NextCases

(* As long as no request is negative (see Counts), the banker's algorithm  *)
(* grants a request whole and safely, in one step, or not at all           *)
(* (banker.c:192).                                                         *)
THEOREM ImplementsSafeAllocation == ASSUME NonNegative PROVE Spec => AllOrNothing
<1>1. Init => Promised!AllocInit
  <2> SUFFICES ASSUME Init
               PROVE  Promised!AllocInit
    OBVIOUS
  <2>1. Typed /\ ~Doomed /\ MappedMatrices
    BY InitTyped, Mapping DEF Doomed
  <2>2. /\ iAvailable \in [Res -> Int] /\ iAllocation \in [Proc -> [Res -> Int]]
        /\ iNeed \in [Proc -> [Res -> Int]]
    BY <2>1 DEF Typed
  <2> QED BY <2>1, <2>2 DEF Promised!AllocInit, Promised!Proc, Proc, MappedMatrices,
        MappedAvail, MappedAlloc, MappedNeed
<1>2. CountInv /\ CountInv' /\ [Next]_vars => [Promised!AllocNext]_MappedVars
  BY AllocStep
<1> QED BY <1>1, <1>2, CountInvariance, PTL
        DEF Spec, AllOrNothing, Promised!AllocSpec, MappedVars, MappedAvail,
            MappedAlloc, MappedNeed
=============================================================================
