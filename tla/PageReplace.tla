---------------------------- MODULE PageReplace -----------------------------
(***************************************************************************)
(* lab-09-page-replace/main.cpp: the menu and the simulation of three page *)
(* replacement algorithms on M frames that all runs share.  Replacement is *)
(* decided by iBlockFlag, the age of a frame ("shift register"), in FIFO   *)
(* and LRU, and by a look into the future of the string in Optimal.        *)
(***************************************************************************)
EXTENDS Integers

CONSTANTS
  M,          \* number of frames
  N,          \* length of the page reference string
  Page,       \* page numbers
  Strings     \* the page reference strings, iPageString

Frame == 0 .. M - 1
First == 3    \* for(i = 3; ...): the first reference after InitialBlock

(* InitialBlock takes the first M references for M faults: it is meant for *)
(* strings that begin with different pages, like the one of main.          *)
ASSUME PageReplaceAssumption ==
  /\ M = First /\ N \in Nat /\ N >= M
  /\ Strings \subseteq [0 .. N - 1 -> Page]
  /\ \A s \in Strings : \A j, k \in Frame : s[j] = s[k] => j = k

VARIABLES
  iPageString,   \* also iTempPage, its copy that nothing changes
  ch,            \* the choice of the user
  flag,          \* 1 for a page fault
  iPageNum, iBlockFlag,   \* the fields of myBlock
  i,
  pc

blocks == <<iPageNum, iBlockFlag>>
vars == <<iPageString, ch, flag, blocks, i, pc>>

Algorithm == {"f", "o", "l"}

(* ch, myBlock and flag are not initialised: ch is read before it is used, *)
(* and flag and myBlock are written before an algorithm looks at them.     *)
Init ==
  /\ iPageString \in Strings
  /\ ch = "x"
  /\ flag = [k \in 0 .. N - 1 |-> 0]
  /\ iPageNum = [j \in Frame |-> iPageString[0]]
  /\ iBlockFlag = [j \in Frame |-> 0]
  /\ i = 0 /\ pc = "menu"

Goto(from, to) == pc = from /\ pc' = to

(* cin >> ch.  At the end of the input ch keeps its value, which is one of *)
(* those it can be given.  "?" is any letter that is no choice.            *)
Menu ==
  /\ ch' \in Algorithm \cup {"x", "?"}
  /\ Goto("menu", IF ch' \in Algorithm THEN "load"
                  ELSE IF ch' = "x" THEN "exit" ELSE "menu")
  /\ flag' = IF ch' \in Algorithm THEN [k \in 0 .. N - 1 |-> 0] ELSE flag
  /\ UNCHANGED <<iPageString, blocks, i>>

(* Variant with a bug: the ages of the run before are kept.                *)
InitialBlock_KeepsAges ==
  /\ Goto("load", "loop")
  /\ iPageNum' = [j \in Frame |-> iPageString[j]]
  /\ flag' = [k \in 0 .. N - 1 |-> IF k \in Frame THEN 1 ELSE flag[k]]
  /\ i' = First
  /\ UNCHANGED <<iPageString, ch, iBlockFlag>>

InitialBlock ==
  /\ Goto("load", "loop")
  /\ iPageNum' = [j \in Frame |-> iPageString[j]]
  /\ iBlockFlag' = [j \in Frame |-> (M - 1) - j]
  /\ flag' = [k \in 0 .. N - 1 |-> IF k \in Frame THEN 1 ELSE flag[k]]
  /\ i' = First
  /\ UNCHANGED <<iPageString, ch>>

-----------------------------------------------------------------------------
(* The frame a search for the page finds first.                            *)
HitFrame(j) ==
  /\ iPageNum[j] = iPageString[i]
  /\ \A k \in 0 .. j - 1 : iPageNum[k] # iPageString[i]

(* Variant with a bug: the last frame is not searched.                     *)
Missed_LastFrame == \A j \in 0 .. M - 2 : iPageNum[j] # iPageString[i]

Missed == \A j \in Frame : iPageNum[j] # iPageString[i]

(* The first frame for which v is greatest: max, and the loops of Optimal  *)
(* and LRU that keep the first best frame.                                 *)
FirstMax(v) ==
  CHOOSE j \in Frame :
    \A k \in Frame : v[k] < v[j] \/ (v[k] = v[j] /\ j <= k)

(* One turn of for(i = 3; i < N; i++) of the algorithm a.                  *)
Turn(a, fault) ==
  /\ pc = "loop" /\ ch = a /\ i < N
  /\ flag' = [flag EXCEPT ![i] = fault]
  /\ i' = i + 1
  /\ UNCHANGED <<iPageString, ch, pc>>

(* All frames but those in young age by one, those become 0.               *)
Age(young) ==
  iBlockFlag' = [j \in Frame |-> IF j \in young THEN 0 ELSE iBlockFlag[j] + 1]

Load(j) == iPageNum' = [iPageNum EXCEPT ![j] = iPageString[i]]

(* Variant with a bug: a hit makes the frame young, as it does in LRU.     *)
FifoHit_AsLru ==
  /\ Turn("f", 0)
  /\ \E j \in Frame : HitFrame(j) /\ Age({j})
  /\ UNCHANGED iPageNum

FifoHit ==
  /\ Turn("f", 0)
  /\ ~Missed
  /\ Age({})
  /\ UNCHANGED iPageNum

FifoMiss ==
  LET loc == FirstMax(iBlockFlag)
  IN Turn("f", 1) /\ Missed /\ Load(loc) /\ Age({loc})

(* Variant with a bug: a page that is not used again counts as used first. *)
allocate_NoneIsZero(page, from) ==
  LET uses == {k \in from .. N - 1 : iPageString[k] = page}
  IN IF uses = {} THEN 0 ELSE CHOOSE k \in uses : \A l \in uses : k <= l

(* The place of the next use of a page, N when there is none.              *)
allocate(page, from) ==
  LET uses == {k \in from .. N - 1 : iPageString[k] = page}
  IN IF uses = {} THEN N ELSE CHOOSE k \in uses : \A l \in uses : k <= l

OptHit ==
  /\ Turn("o", 0)
  /\ ~Missed
  /\ UNCHANGED blocks

OptMiss ==
  LET nextUse == [j \in Frame |-> allocate(iPageNum[j], i + 1)]
  IN /\ Turn("o", 1) /\ Missed
     /\ Load(FirstMax(nextUse))
     /\ UNCHANGED iBlockFlag

(* Variant with a bug: a hit leaves the frame its age.                     *)
LruHit_NoReset ==
  /\ Turn("l", 0)
  /\ ~Missed
  /\ Age({})
  /\ UNCHANGED iPageNum

LruHit ==
  /\ Turn("l", 0)
  /\ \E j \in Frame : HitFrame(j) /\ Age({j})
  /\ UNCHANGED iPageNum

(* Variant with a bug: the frame keeps the age of the page it lost.        *)
LruMiss_KeepsAge ==
  LET victim == FirstMax(iBlockFlag)
  IN Turn("l", 1) /\ Missed /\ Load(victim) /\ Age({})

LruMiss ==
  LET victim == FirstMax(iBlockFlag)
  IN Turn("l", 1) /\ Missed /\ Load(victim) /\ Age({victim})

(* The loop is over; PageNum(flag) is printed and the menu is next.        *)
LoopEnds ==
  /\ i = N /\ Goto("loop", "report")
  /\ UNCHANGED <<iPageString, ch, flag, blocks, i>>

Report ==
  /\ Goto("report", "menu")
  /\ i' = 0
  /\ UNCHANGED <<iPageString, ch, flag, blocks>>

PageNum ==
  LET num[k \in 0 .. N] == IF k = 0 THEN 0 ELSE num[k - 1] + flag[k - 1]
  IN num[N]

Exit == pc = "exit" /\ UNCHANGED vars

Next ==
  \/ Menu \/ InitialBlock
  \/ FifoHit \/ FifoMiss \/ OptHit \/ OptMiss \/ LruHit \/ LruMiss
  \/ LoopEnds \/ Report \/ Exit

Spec == Init /\ [][Next]_vars

-----------------------------------------------------------------------------
(* No age outlives its run: an iBlockFlag never reaches the length of the  *)
(* string, however many algorithms ran before on the same frames.          *)
TypeOK ==
  /\ iPageString \in Strings
  /\ ch \in Algorithm \cup {"x", "?"}
  /\ flag \in [0 .. N - 1 -> {0, 1}]
  /\ iPageNum \in [Frame -> Page]
  /\ iBlockFlag \in [Frame -> 0 .. N - 1]
  /\ i \in 0 .. N
  /\ pc \in {"menu", "load", "loop", "report", "exit"}

(* Whatever was evicted, the frames hold M different pages, one of them    *)
(* the page referenced last.                                               *)
FramesDistinct ==
  pc = "loop" =>
    /\ \A j, k \in Frame : iPageNum[j] = iPageNum[k] => j = k
    /\ \E j \in Frame : iPageNum[j] = iPageString[i - 1]

(* The references before the current one that page p was loaded by, and    *)
(* all of them.                                                            *)
Loads(p) == {k \in 0 .. i - 1 : iPageString[k] = p /\ flag[k] = 1}
Uses(p) == {k \in 0 .. i - 1 : iPageString[k] = p}

Since(age, when) == (i - 1) - age \in when /\ \A k \in when : k <= (i - 1) - age

(* In FIFO the age of a frame is the time since its page was loaded, so    *)
(* that the oldest frame holds the page that came first.                   *)
FifoAgeIsTimeLoaded ==
  pc = "loop" /\ ch = "f" =>
    \A j \in Frame : Since(iBlockFlag[j], Loads(iPageNum[j]))

(* In LRU it is the time since its page was used, hit or loaded.           *)
LruAgeIsTimeUnused ==
  pc = "loop" /\ ch = "l" =>
    \A j \in Frame : Since(iBlockFlag[j], Uses(iPageNum[j]))

(* The reference for FIFO and LRU: the pages in memory as a queue, the one *)
(* to go next at its head.  The page at place k leaves it and p joins it.  *)
Rejoin(q, k, p) ==
  [l \in 1 .. M |-> IF l = M THEN p ELSE IF l < k THEN q[l] ELSE q[l + 1]]

(* A reference to p, after the queue and the number of faults r.  In LRU   *)
(* the page that is used goes back to the end.                             *)
QueueStep(a, r, p) ==
  LET at == {l \in 1 .. M : r.queue[l] = p}
  IN IF at = {}
       THEN [queue |-> Rejoin(r.queue, 1, p), faults |-> r.faults + 1]
     ELSE IF a = "l"
       THEN [queue |-> Rejoin(r.queue, CHOOSE l \in at : TRUE, p), faults |-> r.faults]
     ELSE r

QueueRun(a, s) ==
  LET run[k \in M .. N] ==
        IF k = M THEN [queue |-> [l \in 1 .. M |-> s[l - 1]], faults |-> M]
        ELSE QueueStep(a, run[k - 1], s[k - 1])
  IN run

(* The number FIFO and LRU report is that of a queue from which the head   *)
(* is evicted, and which in LRU a used page rejoins at the end.            *)
FaultsOfQueue ==
  pc = "report" /\ ch \in {"f", "l"} =>
    PageNum = QueueRun(ch, iPageString)[N].faults

(* The least number of faults any replacement can make from the reference  *)
(* k on, with the pages in S in memory.                                    *)
Least(S) == CHOOSE x \in S : \A y \in S : x <= y

PageSet == (SUBSET Page) \ {{}}

(* A reference to p, when G are the numbers from the next one on.          *)
FewestStep(G, p) ==
  [S \in PageSet |->
     IF p \in S THEN G[S]
     ELSE 1 + Least({G[(S \ {v}) \cup {p}] : v \in S})]

Fewest(s) ==
  LET from[k \in M .. N] ==
        IF k = N THEN [S \in PageSet |-> 0]
        ELSE FewestStep(from[k + 1], s[k])
  IN from

(* No replacement of pages makes fewer faults than Optimal reports.        *)
OptimalIsOptimal ==
  pc = "report" /\ ch = "o" =>
    PageNum = M + Fewest(iPageString)[M][{iPageString[k] : k \in Frame}]
=============================================================================
