------------------------- MODULE ProcessSyncProofs -------------------------
(***************************************************************************)
(* Proofs about ProcessSync, for every set of runs, every set of segments  *)
(* and every DATA_SIZE: the types, that the segment is removed, that the   *)
(* runs that share it take turns, that a child reads all of the data and   *)
(* that no wakeup is lost, unless a run sets the segment up while others   *)
(* use it.                                                                 *)
(*                                                                         *)
(* The runs are as many as one likes, but finitely many at a time use a    *)
(* segment, and a step moves one of them: where a cardinality is spoken    *)
(* of, the run that makes the step is counted apart from the others.       *)
(***************************************************************************)
EXTENDS ProcessSync, FiniteSetTheorems, TLAPS

(* What the two processes of a run go through; Before is before fork.      *)
PC == {"off", "shmat", "zero", "sem_w", "sem_r", "fork",
       "wait_w", "write", "post_r", "shmdt", "rmid"}
ChildPC == {"off", "wait_r", "sleep", "read", "post_w", "done"}
Before == {"shmat", "zero", "sem_w", "sem_r", "fork"}
Seen == [cells : 0 .. DataSize, written : SUBSET Cell]

(* What a run keeps at each point of its two processes.                    *)
RunInv(r) ==
  /\ shm_id[r] = NoSegment <=> pc[r] = "off" /\ child[r] = "off"
  /\ pc[r] \in Before \/ shm_id[r] = NoSegment =>
       child[r] = "off" /\ i[r] = 0 /\ seen[r] = Nothing
  /\ pc[r] = "wait_w" => i[r] = 0
  /\ pc[r] = "write" => i[r] < DataSize
  /\ pc[r] = "post_r" => i[r] = DataSize
  /\ child[r] \in {"wait_r", "sleep"} => seen[r] = Nothing
  /\ child[r] = "read" => seen[r].cells < DataSize
  /\ program = "plain" =>
       /\ pc[r] \notin {"sem_w", "sem_r", "wait_w", "post_r"}
       /\ child[r] \notin {"wait_r", "post_w"}
  /\ program = "sem" => child[r] # "sleep"

(* The types, also of what TypeOK leaves out.                              *)
Types ==
  /\ TypeOK
  /\ program \in {"plain", "sem"}
  /\ pc \in [Run -> PC] /\ child \in [Run -> ChildPC] /\ seen \in [Run -> Seen]

(* What holds of every run, whoever shares its segment.                    *)
BaseInv == Types /\ \A r \in Run : RunInv(r)

(* A child that has read nothing.                                          *)
LEMMA NothingSeen == Nothing \in Seen /\ Nothing.cells = 0 /\ Nothing.written = {}
BY ProcessSyncAssumption DEF Nothing, Seen

(* The types hold at first, and no run has begun.                          *)
LEMMA InitBase == Init => BaseInv
<1> SUFFICES ASSUME Init
             PROVE  BaseInv
  OBVIOUS
<1>1. seen \in [Run -> Seen]
  BY NothingSeen DEF Init
<1>2. i \in [Run -> 0 .. DataSize]
  BY ProcessSyncAssumption DEF Init
<1>3. /\ sem_w \in [Segment -> Nat] /\ sem_r \in [Segment -> Nat]
      /\ data \in [Segment -> SUBSET Cell]
      /\ pc \in [Run -> PC] /\ child \in [Run -> ChildPC]
      /\ asleep \in SUBSET (Run \X {"wait_w", "wait_r"})
  BY DEF Init, PC, ChildPC
<1>4. TypeOK
  BY <1>1, <1>2, <1>3 DEF Init, TypeOK, Seen
<1>5. \A r \in Run : RunInv(r)
  BY DEF Init, RunInv, Before
<1> QED BY <1>1, <1>3, <1>4, <1>5 DEF Init, BaseInv, Types

(* The functions over the runs, as the steps change them.                  *)
RunTypes ==
  /\ pc \in [Run -> PC] /\ child \in [Run -> ChildPC]
  /\ shm_id \in [Run -> Segment \cup {NoSegment}]
  /\ i \in [Run -> 0 .. DataSize] /\ seen \in [Run -> Seen]

(* The key, the functions over the segments, and the sleepers.             *)
SegTypes ==
  /\ key \in Segment \cup {NoSegment}
  /\ data \in [Segment -> SUBSET Cell]
  /\ sem_w \in [Segment -> Nat] /\ sem_r \in [Segment -> Nat]
  /\ asleep \in SUBSET (Run \X {"wait_w", "wait_r"})

(* The types are these two, and those of the notes.                        *)
LEMMA TypesAre ==
  Types <=> /\ RunTypes /\ SegTypes
            /\ program \in {"plain", "sem"}
            /\ disturbed \in SUBSET Segment /\ failed \in BOOLEAN
BY DEF Types, TypeOK, RunTypes, SegTypes, Seen

(* A run other than r keeps everything.                                    *)
Untouched(q) ==
  /\ pc'[q] = pc[q] /\ child'[q] = child[q] /\ shm_id'[q] = shm_id[q]
  /\ i'[q] = i[q] /\ seen'[q] = seen[q]

(* Both processes of a run have ended.                                     *)
Over(r) == pc[r] = "off" /\ child[r] = "off"

(* What Leave does.                                                        *)
LEMMA LeaveFacts ==
  ASSUME Types, NEW r \in Run, Leave(r)
  PROVE  /\ shm_id' = [shm_id EXCEPT ![r] = IF Over(r)' THEN NoSegment ELSE shm_id[r]]
         /\ i' = [i EXCEPT ![r] = IF Over(r)' THEN 0 ELSE i[r]]
         /\ seen' = [seen EXCEPT ![r] = IF Over(r)' THEN Nothing ELSE seen[r]]
         /\ \A g \in Segment : Exists(g)' =>
              data'[g] = data[g] /\ sem_w'[g] = sem_w[g] /\ sem_r'[g] = sem_r[g]
         /\ \A g \in Segment : ~Exists(g)' =>
              data'[g] = {} /\ sem_w'[g] = 0 /\ sem_r'[g] = 0
         /\ shm_id' \in [Run -> Segment \cup {NoSegment}]
         /\ i' \in [Run -> 0 .. DataSize] /\ seen' \in [Run -> Seen]
         /\ data' \in [Segment -> SUBSET Cell]
         /\ sem_w' \in [Segment -> Nat] /\ sem_r' \in [Segment -> Nat]
         /\ asleep' \subseteq asleep
         /\ \A s \in asleep' : s \in Waiters(shm_id[s[1]], s[2])'
<1>1. /\ shm_id \in [Run -> Segment \cup {NoSegment}]
      /\ i \in [Run -> 0 .. DataSize] /\ seen \in [Run -> Seen]
      /\ data \in [Segment -> SUBSET Cell]
      /\ sem_w \in [Segment -> Nat] /\ sem_r \in [Segment -> Nat]
  BY DEF Types, TypeOK
<1>2. /\ shm_id' = IF Over(r)' THEN [shm_id EXCEPT ![r] = NoSegment] ELSE shm_id
      /\ i' = IF Over(r)' THEN [i EXCEPT ![r] = 0] ELSE i
      /\ seen' = IF Over(r)' THEN [seen EXCEPT ![r] = Nothing] ELSE seen
      /\ data' = [g \in Segment |-> IF Exists(g)' THEN data[g] ELSE {}]
      /\ sem_w' = [g \in Segment |-> IF Exists(g)' THEN sem_w[g] ELSE 0]
      /\ sem_r' = [g \in Segment |-> IF Exists(g)' THEN sem_r[g] ELSE 0]
  BY DEF Leave, Over
<1>3. /\ shm_id' = [shm_id EXCEPT ![r] = IF Over(r)' THEN NoSegment ELSE shm_id[r]]
      /\ i' = [i EXCEPT ![r] = IF Over(r)' THEN 0 ELSE i[r]]
      /\ seen' = [seen EXCEPT ![r] = IF Over(r)' THEN Nothing ELSE seen[r]]
  BY <1>1, <1>2
<1>4. /\ shm_id' \in [Run -> Segment \cup {NoSegment}]
      /\ i' \in [Run -> 0 .. DataSize] /\ seen' \in [Run -> Seen]
  BY <1>1, <1>2, NothingSeen, ProcessSyncAssumption
<1>5. /\ data' \in [Segment -> SUBSET Cell]
      /\ sem_w' \in [Segment -> Nat] /\ sem_r' \in [Segment -> Nat]
  BY <1>1, <1>2
<1>6. /\ asleep' \subseteq asleep
      /\ \A s \in asleep' : s \in Waiters(shm_id[s[1]], s[2])'
  BY DEF Leave
<1> QED BY <1>2, <1>3, <1>4, <1>5, <1>6

(* A step of run r, seen from the types and from the other runs.           *)
Shape(r) ==
  /\ RunTypes' /\ SegTypes' /\ failed' \in BOOLEAN
  /\ \A q \in Run \ {r} : Untouched(q)

(* The actions of a run.                                                   *)
Does(r) ==
  \/ Shmget(r) \/ Main(r) \/ Fails(r) \/ Parent(r) \/ Child(r) \/ Kill(r)
  \/ Stir(r)

(* Those who wait are runs.                                                *)
LEMMA WaitersAre ==
  ASSUME NEW g, NEW w \in {"wait_w", "wait_r"}
  PROVE  Waiters(g, w) \subseteq Run \X {"wait_w", "wait_r"}
BY DEF Waiters, Users

(* Every action keeps the types and leaves the other runs alone.           *)
LEMMA ShapeOf ==
  ASSUME Types, NEW r \in Run, Does(r)
  PROVE  Shape(r)
<1>1. RunTypes /\ SegTypes /\ failed \in BOOLEAN /\ program \in {"plain", "sem"}
  BY TypesAre
<1> USE DEF RunTypes
<1>2. CASE Shmget(r)
  <2>1. PICK g \in Segment : key' = g /\ shm_id' = [shm_id EXCEPT ![r] = g]
    BY <1>2 DEF Shmget
  <2>2. /\ pc' = [pc EXCEPT ![r] = "shmat"]
        /\ UNCHANGED <<segvars, child, i, seen, failed>>
    BY <1>2 DEF Shmget, Goto
  <2> QED BY <1>1, <2>1, <2>2 DEF Shape, SegTypes, Untouched, segvars, PC
<1>3. CASE Shmat(r) \/ Fork(r) \/ Wake(r)
  <2>1. PICK p \in PC, c \in ChildPC :
          pc' = [pc EXCEPT ![r] = p] /\ child' = [child EXCEPT ![r] = c]
    <3>1. child = [child EXCEPT ![r] = child[r]] /\ pc = [pc EXCEPT ![r] = pc[r]]
      BY <1>1
    <3> QED BY <1>1, <1>3, <3>1 DEF Shmat, Fork, Wake, Goto, ChildGoto, PC, ChildPC
  <2>2. UNCHANGED <<key, segvars, shm_id, i, seen, failed>>
    BY <1>3 DEF Shmat, Fork, Wake
  <2> QED BY <1>1, <2>1, <2>2 DEF Shape, SegTypes, Untouched, segvars
<1>4. CASE ZeroData(r)
  BY <1>1, <1>4 DEF ZeroData, Goto, Shape, SegTypes, Untouched, PC
<1>5. ASSUME NEW p \in PC, NEW c \in ChildPC,
             pc' = [pc EXCEPT ![r] = p], child' = [child EXCEPT ![r] = c],
             sem_w' \in [Segment -> Nat], sem_r' \in [Segment -> Nat],
             asleep' \in SUBSET (Run \X {"wait_w", "wait_r"}),
             UNCHANGED <<key, data, shm_id, i, seen, failed>>
      PROVE  Shape(r)
  BY <1>1, <1>5 DEF Shape, SegTypes, Untouched
<1>6. child = [child EXCEPT ![r] = child[r]] /\ pc = [pc EXCEPT ![r] = pc[r]]
      /\ pc[r] \in PC /\ child[r] \in ChildPC
  BY <1>1
<1>7. CASE InitSems(r)
  <2>1. sem_w' \in [Segment -> Nat] /\ sem_r' \in [Segment -> Nat]
    BY <1>1, <1>7 DEF InitSems, sem_init, SegTypes
  <2>2. PICK p \in PC : pc' = [pc EXCEPT ![r] = p]
    BY <1>7 DEF InitSems, Goto, PC
  <2>3. asleep' \in SUBSET (Run \X {"wait_w", "wait_r"})
    <3>1. PICK w \in {"wait_w", "wait_r"} :
            \E S \in SUBSET Waiters(shm_id[r], w) : asleep' = asleep \cup S
      BY <1>7 DEF InitSems, sem_init
    <3> QED BY <1>1, <3>1, WaitersAre DEF SegTypes
  <2> QED BY <1>5, <1>6, <1>7, <2>1, <2>2, <2>3 DEF InitSems
<1>8. CASE WaitW(r) \/ PostR(r)
  <2>1. /\ sem_w' \in [Segment -> Nat] /\ sem_r' \in [Segment -> Nat]
        /\ asleep' \in SUBSET (Run \X {"wait_w", "wait_r"})
    BY <1>1, <1>8 DEF WaitW, PostR, sem_wait, sem_post, SegTypes
  <2>2. PICK p \in PC : pc' = [pc EXCEPT ![r] = p]
    BY <1>8 DEF WaitW, PostR, Goto, PC
  <2> QED BY <1>5, <1>6, <1>8, <2>1, <2>2 DEF WaitW, PostR
<1>9. CASE WaitR(r) \/ PostW(r)
  <2>1. /\ sem_w' \in [Segment -> Nat] /\ sem_r' \in [Segment -> Nat]
        /\ asleep' \in SUBSET (Run \X {"wait_w", "wait_r"})
    BY <1>1, <1>9 DEF WaitR, PostW, sem_wait, sem_post, SegTypes
  <2>2. PICK c \in ChildPC : child' = [child EXCEPT ![r] = c]
    BY <1>9 DEF WaitR, PostW, ChildGoto, ChildPC
  <2> QED BY <1>5, <1>6, <1>9, <2>1, <2>2 DEF WaitR, PostW
<1>10. CASE WriteCell(r)
  <2>1. /\ i[r] \in 0 .. DataSize - 1 /\ i' = [i EXCEPT ![r] = i[r] + 1]
        /\ data' = [data EXCEPT ![shm_id[r]] = @ \cup {i[r]}]
        /\ UNCHANGED <<key, sem_w, sem_r, asleep, child, shm_id, seen, failed>>
    BY <1>1, <1>10, ProcessSyncAssumption DEF WriteCell
  <2>2. PICK p \in PC : pc' = [pc EXCEPT ![r] = p]
    BY <1>6, <1>10 DEF WriteCell, Goto, PC
  <2>3. i' \in [Run -> 0 .. DataSize] /\ data' \in [Segment -> SUBSET Cell]
    <3>1. i[r] + 1 \in 0 .. DataSize /\ i[r] \in Cell
      BY <2>1, ProcessSyncAssumption DEF Cell
    <3> QED BY <1>1, <2>1, <3>1 DEF SegTypes
  <2> QED BY <1>1, <2>1, <2>2, <2>3 DEF Shape, SegTypes, Untouched
<1>11. CASE ReadCell(r)
  <2> DEFINE c == seen[r].cells
             w == seen[r].written \cup (data[shm_id[r]] \cap {c})
  <2>1. /\ c = DataSize - 1 \/ c < DataSize - 1
        /\ seen' = [seen EXCEPT ![r] = [cells |-> c + 1, written |-> w]]
        /\ UNCHANGED <<key, segvars, pc, shm_id, i, failed>>
    BY <1>11 DEF ReadCell
  <2>2. PICK d \in ChildPC : child' = [child EXCEPT ![r] = d]
    BY <1>6, <1>11 DEF ReadCell, ChildGoto, ChildPC
  <2>3. c \in 0 .. DataSize /\ seen[r].written \in SUBSET Cell
    BY <1>1 DEF Seen
  <2>4. c + 1 \in 0 .. DataSize /\ w \in SUBSET Cell
    BY <2>1, <2>3, ProcessSyncAssumption DEF Cell
  <2> HIDE DEF c, w
  <2>5. seen' \in [Run -> Seen]
    BY <1>1, <2>1, <2>4 DEF Seen
  <2> QED BY <1>1, <2>1, <2>2, <2>5 DEF Shape, SegTypes, Untouched, segvars
<1>12. ASSUME Leave(r), NEW p \in PC, NEW c \in ChildPC,
              pc' = [pc EXCEPT ![r] = p], child' = [child EXCEPT ![r] = c],
              key' \in Segment \cup {NoSegment}, failed' \in BOOLEAN
       PROVE  Shape(r)
  <2>1. /\ shm_id' = [shm_id EXCEPT ![r] = IF Over(r)' THEN NoSegment ELSE shm_id[r]]
        /\ i' = [i EXCEPT ![r] = IF Over(r)' THEN 0 ELSE i[r]]
        /\ seen' = [seen EXCEPT ![r] = IF Over(r)' THEN Nothing ELSE seen[r]]
        /\ shm_id' \in [Run -> Segment \cup {NoSegment}]
        /\ i' \in [Run -> 0 .. DataSize] /\ seen' \in [Run -> Seen]
        /\ data' \in [Segment -> SUBSET Cell]
        /\ sem_w' \in [Segment -> Nat] /\ sem_r' \in [Segment -> Nat]
        /\ asleep' \subseteq asleep
    BY <1>12, LeaveFacts
  <2> QED BY <1>1, <1>12, <2>1 DEF Shape, SegTypes, Untouched
<1>13. CASE Fails(r) \/ Shmdt(r) \/ Rmid(r)
  <2>1. PICK p \in PC : pc' = [pc EXCEPT ![r] = p]
    BY <1>13 DEF Fails, Shmdt, Rmid, Goto, PC
  <2>2. key' \in Segment \cup {NoSegment} /\ failed' \in BOOLEAN
    BY <1>1, <1>13 DEF Fails, Shmdt, Rmid, SegTypes
  <2> QED BY <1>6, <1>12, <1>13, <2>1, <2>2 DEF Fails, Shmdt, Rmid
<1>14. CASE ChildEnds(r)
  <2>1. PICK c \in ChildPC : child' = [child EXCEPT ![r] = c]
    BY <1>14 DEF ChildEnds, ChildGoto, ChildPC
  <2>2. key' \in Segment \cup {NoSegment} /\ failed' \in BOOLEAN
    BY <1>1, <1>14 DEF ChildEnds, SegTypes
  <2> QED BY <1>6, <1>12, <1>14, <2>1, <2>2 DEF ChildEnds
<1>15. CASE Kill(r)
  <2>1. PICK p \in PC, c \in ChildPC :
          pc' = [pc EXCEPT ![r] = p] /\ child' = [child EXCEPT ![r] = c]
    BY <1>6, <1>15 DEF Kill, PC, ChildPC
  <2>2. key' \in Segment \cup {NoSegment} /\ failed' \in BOOLEAN
    BY <1>1, <1>15 DEF Kill, SegTypes
  <2> QED BY <1>12, <1>15, <2>1, <2>2 DEF Kill
<1>16. CASE Stir(r)
  <2>1. PICK w \in {"wait_w", "wait_r"} :
          \E S \in SUBSET Waiters(shm_id[r], w) :
            asleep' = (asleep \ {<<r, w>>}) \cup S
    BY <1>16 DEF Stir
  <2>2. asleep' \in SUBSET (Run \X {"wait_w", "wait_r"})
    BY <1>1, <2>1, WaitersAre DEF SegTypes
  <2>3. UNCHANGED <<key, data, sem_w, sem_r, pc, child, shm_id, i, seen, failed>>
    BY <1>16 DEF Stir
  <2> QED BY <1>1, <2>2, <2>3 DEF Shape, SegTypes, Untouched
<1> QED BY <1>2, <1>3, <1>4, <1>7, <1>8, <1>9, <1>10, <1>11, <1>13, <1>14, <1>15, <1>16
        DEF Does, Main, Parent, Child

(* The run that makes the step keeps its invariant.                        *)
LEMMA RunKept ==
  ASSUME BaseInv, NEW r \in Run, Does(r), UNCHANGED program
  PROVE  RunInv(r)'
<1>1. Types /\ RunInv(r)
  BY DEF BaseInv
<1>2. /\ pc \in [Run -> PC] /\ child \in [Run -> ChildPC]
      /\ shm_id \in [Run -> Segment \cup {NoSegment}]
      /\ i \in [Run -> 0 .. DataSize] /\ seen \in [Run -> Seen]
      /\ program \in {"plain", "sem"} /\ program' = program
      /\ NoSegment \notin Segment /\ DataSize \in Nat \ {0}
  BY <1>1, TypesAre, ProcessSyncAssumption DEF RunTypes
<1>3. /\ pc[r] \in PC /\ child[r] \in ChildPC /\ i[r] \in 0 .. DataSize
      /\ seen[r].cells \in 0 .. DataSize
  BY <1>2 DEF Seen
<1>4. CASE Shmget(r)
  <2>1. PICK g \in Segment : shm_id' = [shm_id EXCEPT ![r] = g]
    BY <1>4 DEF Shmget
  <2>2. /\ pc[r] = "off" /\ child[r] = "off" /\ pc' = [pc EXCEPT ![r] = "shmat"]
        /\ UNCHANGED <<child, i, seen>>
    BY <1>4 DEF Shmget, Goto
  <2> QED BY <1>1, <1>2, <2>1, <2>2 DEF RunInv, Before
<1>5. CASE Shmat(r)
  BY <1>1, <1>2, <1>5 DEF RunInv, Shmat, Goto, Before
<1>6. CASE ZeroData(r)
  BY <1>1, <1>2, <1>6 DEF RunInv, ZeroData, Goto, Before
<1>7. CASE InitSems(r)
  BY <1>1, <1>2, <1>7 DEF RunInv, InitSems, Goto, Before
<1>8. CASE Fork(r)
  BY <1>1, <1>2, <1>8 DEF RunInv, Fork, Goto, ChildGoto, Before
<1>9. CASE WaitW(r)
  BY <1>1, <1>2, <1>9 DEF RunInv, WaitW, Goto, Before
<1>10. CASE WriteCell(r)
  <2>1. /\ pc[r] = "write" /\ i' = [i EXCEPT ![r] = i[r] + 1]
        /\ UNCHANGED <<child, shm_id, seen>>
    BY <1>10 DEF WriteCell, Goto
  <2>2. CASE i[r] < DataSize - 1 /\ pc' = pc
    BY <1>1, <1>2, <1>3, <2>1, <2>2 DEF RunInv, Before
  <2>3. CASE i[r] = DataSize - 1 /\
             pc' = [pc EXCEPT ![r] = IF program = "sem" THEN "post_r" ELSE "shmdt"]
    BY <1>1, <1>2, <1>3, <2>1, <2>3 DEF RunInv, Before
  <2> QED BY <1>10, <2>2, <2>3 DEF WriteCell, Goto
<1>11. CASE PostR(r)
  BY <1>1, <1>2, <1>11 DEF RunInv, PostR, Goto, Before
<1>12. CASE Wake(r)
  BY <1>1, <1>2, <1>12, NothingSeen DEF RunInv, Wake, ChildGoto, Before
<1>13. CASE WaitR(r)
  BY <1>1, <1>2, <1>13, NothingSeen DEF RunInv, WaitR, ChildGoto, Before
<1>14. CASE PostW(r)
  BY <1>1, <1>2, <1>14 DEF RunInv, PostW, ChildGoto, Before
<1>15. CASE ReadCell(r)
  <2> DEFINE w == seen[r].written \cup (data[shm_id[r]] \cap {seen[r].cells})
  <2>1. /\ child[r] = "read" /\ UNCHANGED <<pc, shm_id, i>>
        /\ seen' = [seen EXCEPT ![r] = [cells |-> seen[r].cells + 1, written |-> w]]
    BY <1>15 DEF ReadCell, ChildGoto
  <2>2. seen'[r] = [cells |-> seen[r].cells + 1, written |-> w]
    BY <1>2, <2>1
  <2>3. seen'[r].cells = seen[r].cells + 1
    BY <2>2
  <2> HIDE DEF w
  <2>4. CASE seen[r].cells < DataSize - 1 /\ child' = child
    BY <1>1, <1>2, <1>3, <2>1, <2>3, <2>4 DEF RunInv, Before
  <2>5. CASE seen[r].cells = DataSize - 1 /\
             child' = [child EXCEPT ![r] = IF program = "sem" THEN "post_w" ELSE "done"]
    BY <1>1, <1>2, <1>3, <2>1, <2>3, <2>5 DEF RunInv, Before
  <2> QED BY <1>15, <2>4, <2>5 DEF ReadCell, ChildGoto
<1>16. ASSUME Leave(r)
       PROVE  /\ shm_id'[r] = IF Over(r)' THEN NoSegment ELSE shm_id[r]
              /\ i'[r] = IF Over(r)' THEN 0 ELSE i[r]
              /\ seen'[r] = IF Over(r)' THEN Nothing ELSE seen[r]
  <2>1. /\ shm_id' = [shm_id EXCEPT ![r] = IF Over(r)' THEN NoSegment ELSE shm_id[r]]
        /\ i' = [i EXCEPT ![r] = IF Over(r)' THEN 0 ELSE i[r]]
        /\ seen' = [seen EXCEPT ![r] = IF Over(r)' THEN Nothing ELSE seen[r]]
    BY <1>1, <1>16, LeaveFacts
  <2> QED BY <1>2, <2>1
<1>17. CASE Fails(r)
  <2>1. Leave(r) /\ child' = child /\ pc[r] \in Before /\ pc' = [pc EXCEPT ![r] = "off"]
    BY <1>17 DEF Fails, Goto, Before
  <2> QED BY <1>1, <1>2, <1>16, <2>1 DEF RunInv, Over, Before
<1>18. CASE Shmdt(r)
  <2>1. /\ Leave(r) /\ child' = child /\ pc[r] = "shmdt"
        /\ pc' = [pc EXCEPT ![r] = "rmid"]
    BY <1>18 DEF Shmdt, Goto
  <2> QED BY <1>1, <1>2, <1>16, <2>1 DEF RunInv, Over, Before
<1>19. CASE Rmid(r)
  <2>1. Leave(r) /\ child' = child /\ pc[r] = "rmid" /\ pc' = [pc EXCEPT ![r] = "off"]
    BY <1>19 DEF Rmid, Goto
  <2> QED BY <1>1, <1>2, <1>16, <2>1 DEF RunInv, Over, Before
<1>20. CASE ChildEnds(r)
  <2>1. /\ Leave(r) /\ pc' = pc /\ child[r] = "done"
        /\ child' = [child EXCEPT ![r] = "off"]
    BY <1>20 DEF ChildEnds, ChildGoto
  <2> QED BY <1>1, <1>2, <1>16, <2>1 DEF RunInv, Over, Before
<1>21. CASE Kill(r)
  <2>1. Leave(r)
    BY <1>21 DEF Kill
  <2>2. CASE pc[r] # "off" /\ pc' = [pc EXCEPT ![r] = "off"] /\ child' = child
    BY <1>1, <1>2, <1>16, <2>1, <2>2 DEF RunInv, Over, Before
  <2>3. CASE child[r] # "off" /\ child' = [child EXCEPT ![r] = "off"] /\ pc' = pc
    BY <1>1, <1>2, <1>16, <2>1, <2>3 DEF RunInv, Over, Before
  <2> QED BY <1>21, <2>2, <2>3 DEF Kill
<1>22. CASE Stir(r)
  BY <1>1, <1>2, <1>22 DEF RunInv, Stir
<1> QED BY <1>4, <1>5, <1>6, <1>7, <1>8, <1>9, <1>10, <1>11, <1>12, <1>13, <1>14,
           <1>15, <1>17, <1>18, <1>19, <1>20, <1>21, <1>22
        DEF Does, Main, Parent, Child

(* What Next is, with the run that makes the step.                         *)
LEMMA NextDoes ==
  ASSUME Next
  PROVE  \E r \in Run : Does(r) /\ UNCHANGED program /\ Note
BY DEF Next, Step, Does

(* Every step keeps the types and what the runs keep.                      *)
LEMMA NextBase ==
  ASSUME BaseInv, [Next]_vars
  PROVE  BaseInv'
<1>1. CASE UNCHANGED vars
  BY <1>1 DEF vars, segvars, notes, BaseInv, Types, TypeOK, RunInv
<1>2. CASE Next
  <2>1. PICK r \in Run : Does(r) /\ UNCHANGED program /\ Note
    BY <1>2, NextDoes
  <2>2. Types /\ Shape(r)
    BY <2>1, ShapeOf DEF BaseInv
  <2>3. Types'
    <3>1. disturbed' \in SUBSET Segment
      BY <2>1 DEF Note
    <3> QED BY <2>1, <2>2, <3>1, TypesAre DEF Shape, Types, TypeOK, RunTypes, SegTypes, Seen
  <2>4. RunInv(r)'
    BY <2>1, RunKept
  <2>5. ASSUME NEW q \in Run \ {r}
        PROVE  RunInv(q)'
    BY <2>1, <2>2, <2>5 DEF BaseInv, Shape, Untouched, RunInv
  <2> QED BY <2>3, <2>4, <2>5 DEF BaseInv
<1> QED BY <1>1, <1>2

(* So they hold forever.                                                   *)
LEMMA BaseInvariance == Spec => []BaseInv
<1>1. Init => BaseInv
  BY InitBase
<1>2. BaseInv /\ [Next]_vars => BaseInv'
  BY NextBase
<1> QED BY <1>1, <1>2, PTL DEF Spec

(* No process leaves its array, and no semaphore is less than 0.           *)
THEOREM TypeCorrect == Spec => []TypeOK
<1>1. BaseInv => TypeOK
  BY DEF BaseInv, Types
<1> QED BY <1>1, BaseInvariance, PTL

-----------------------------------------------------------------------------
(* Those whose run has begun, and not ended, to use the semaphores of g.   *)
Past(g) ==
  {r \in Users(g) :
     \/ pc[r] \in {"sem_r", "fork", "wait_w", "write", "post_r", "shmdt"}
     \/ child[r] # "off"}
(* The children that wait, and the parents that have yet to post.          *)
Waiting(g) == {r \in Users(g) : child[r] = "wait_r"}
ToWrite(g) == {r \in Users(g) : pc[r] \in {"wait_w", "write", "post_r"}}

(* A segment keeps its contents in a step, or is destroyed.                *)
Keeps(g) == data'[g] = data[g] /\ sem_w'[g] = sem_w[g] /\ sem_r'[g] = sem_r[g]
Wiped(g) == ~Exists(g)' /\ data'[g] = {} /\ sem_w'[g] = 0 /\ sem_r'[g] = 0

(* One process of run r goes from a to b.                                  *)
MainGoes(r, a, b) ==
  /\ pc[r] = a /\ pc'[r] = b /\ child'[r] = child[r]
  /\ shm_id'[r] = shm_id[r]
ChildGoes(r, a, b) ==
  /\ child[r] = a /\ child'[r] = b /\ pc'[r] = pc[r]
  /\ shm_id'[r] = shm_id[r]
(* What Leave does to the run and to the segments.                         *)
Parts(r) ==
  /\ shm_id'[r] = IF Over(r)' THEN NoSegment ELSE shm_id[r]
  /\ \A g \in Segment : Exists(g)' => Keeps(g)
  /\ \A g \in Segment : ~Exists(g)' => Wiped(g)
  /\ ~Over(r)' => i'[r] = i[r] /\ seen'[r] = seen[r]

(* Each action, seen from the run that makes it.                           *)
LEMMA Points ==
  ASSUME BaseInv, NEW r \in Run, UNCHANGED program
  PROVE  /\ Shmget(r) => /\ pc[r] = "off" /\ child[r] = "off"
                         /\ pc'[r] = "shmat" /\ child'[r] = "off"
                         /\ UNCHANGED <<segvars, failed>>
         /\ Shmat(r) => /\ MainGoes(r, "shmat", "zero")
                        /\ UNCHANGED <<segvars, failed>>
         /\ ZeroData(r) => /\ pc[r] = "zero" /\ pc'[r] \in {"sem_w", "fork"}
                           /\ program = "sem" => pc'[r] = "sem_w"
                           /\ child'[r] = child[r] /\ shm_id'[r] = shm_id[r]
                           /\ UNCHANGED <<sem_w, sem_r, failed>>
                           /\ data' = [data EXCEPT ![shm_id[r]] = {}]
         /\ InitSems(r) =>
              /\ \/ /\ MainGoes(r, "sem_w", "sem_r") /\ UNCHANGED sem_r
                    /\ sem_w' = [sem_w EXCEPT ![shm_id[r]] = 1]
                 \/ /\ MainGoes(r, "sem_r", "fork") /\ UNCHANGED sem_w
                    /\ sem_r' = [sem_r EXCEPT ![shm_id[r]] = 0]
              /\ UNCHANGED <<data, failed>>
         /\ Fork(r) => /\ pc[r] = "fork" /\ child[r] = "off"
                       /\ shm_id'[r] = shm_id[r]
                       /\ UNCHANGED <<segvars, failed>>
                       /\ program = "sem" => pc'[r] = "wait_w" /\ child'[r] = "wait_r"
                       /\ program = "plain" => pc'[r] = "write" /\ child'[r] = "sleep"
         /\ WaitW(r) => /\ MainGoes(r, "wait_w", "write")
                        /\ sem_w' = [sem_w EXCEPT ![shm_id[r]] = @ - 1]
                        /\ UNCHANGED <<data, sem_r, failed>>
         /\ WriteCell(r) => /\ pc[r] = "write" /\ pc'[r] \in {"write", "post_r", "shmdt"}
                            /\ program = "sem" => pc'[r] \in {"write", "post_r"}
                            /\ child'[r] = child[r] /\ shm_id'[r] = shm_id[r]
                            /\ UNCHANGED <<sem_w, sem_r, failed>>
         /\ PostR(r) => /\ MainGoes(r, "post_r", "shmdt")
                        /\ sem_r' = [sem_r EXCEPT ![shm_id[r]] = @ + 1]
                        /\ UNCHANGED <<data, sem_w, failed>>
         /\ Wake(r) => /\ ChildGoes(r, "sleep", "read")
                       /\ UNCHANGED <<segvars, failed>>
         /\ WaitR(r) => /\ ChildGoes(r, "wait_r", "read") /\ sem_r[shm_id[r]] > 0
                        /\ sem_r' = [sem_r EXCEPT ![shm_id[r]] = @ - 1]
                        /\ UNCHANGED <<data, sem_w, failed>>
         /\ ReadCell(r) => /\ child[r] = "read"
                           /\ child'[r] \in {"read", "post_w", "done"}
                           /\ program = "sem" => child'[r] \in {"read", "post_w"}
                           /\ pc'[r] = pc[r] /\ shm_id'[r] = shm_id[r]
                           /\ UNCHANGED <<segvars, failed>>
         /\ PostW(r) => /\ ChildGoes(r, "post_w", "done")
                        /\ sem_w' = [sem_w EXCEPT ![shm_id[r]] = @ + 1]
                        /\ UNCHANGED <<data, sem_r, failed>>
         /\ Shmdt(r) => /\ Parts(r) /\ pc[r] = "shmdt" /\ pc'[r] = "rmid"
                        /\ child'[r] = child[r] /\ UNCHANGED failed
         /\ Rmid(r) => /\ Parts(r) /\ pc[r] = "rmid" /\ pc'[r] = "off"
                       /\ child'[r] = child[r] /\ UNCHANGED failed
         /\ ChildEnds(r) => /\ Parts(r) /\ child[r] = "done" /\ child'[r] = "off"
                            /\ pc'[r] = pc[r] /\ UNCHANGED failed
         /\ Fails(r) \/ Kill(r) =>
              /\ Parts(r) /\ pc'[r] \in {"off", pc[r]} /\ child'[r] \in {"off", child[r]}
              /\ failed' = TRUE
         /\ Stir(r) => /\ pc'[r] = pc[r] /\ child'[r] = child[r] /\ shm_id'[r] = shm_id[r]
                       /\ UNCHANGED <<data, sem_w, sem_r, i, seen, failed>>
<1>1. /\ pc \in [Run -> PC] /\ child \in [Run -> ChildPC]
      /\ shm_id \in [Run -> Segment \cup {NoSegment}]
      /\ i \in [Run -> 0 .. DataSize] /\ seen \in [Run -> Seen]
      /\ program \in {"plain", "sem"}
  BY TypesAre DEF RunTypes, BaseInv
<1>2. Leave(r) => Parts(r)
  <2> SUFFICES ASSUME Leave(r)
               PROVE  Parts(r)
    OBVIOUS
  <2>1. shm_id' = [shm_id EXCEPT ![r] = IF Over(r)' THEN NoSegment ELSE shm_id[r]]
    BY LeaveFacts DEF BaseInv
  <2>2. /\ \A g \in Segment : Exists(g)' =>
             data'[g] = data[g] /\ sem_w'[g] = sem_w[g] /\ sem_r'[g] = sem_r[g]
        /\ \A g \in Segment : ~Exists(g)' =>
             data'[g] = {} /\ sem_w'[g] = 0 /\ sem_r'[g] = 0
    BY LeaveFacts DEF BaseInv
  <2>3. /\ i' = [i EXCEPT ![r] = IF Over(r)' THEN 0 ELSE i[r]]
        /\ seen' = [seen EXCEPT ![r] = IF Over(r)' THEN Nothing ELSE seen[r]]
    BY LeaveFacts DEF BaseInv
  <2> QED BY <1>1, <2>1, <2>2, <2>3 DEF Parts, Keeps, Wiped
<1>3. /\ Shmget(r) => /\ pc[r] = "off" /\ child[r] = "off"
                      /\ pc'[r] = "shmat" /\ child'[r] = "off"
                      /\ UNCHANGED <<segvars, failed>>
      /\ Shmat(r) => /\ MainGoes(r, "shmat", "zero")
                     /\ UNCHANGED <<segvars, failed>>
      /\ ZeroData(r) => /\ pc[r] = "zero" /\ pc'[r] \in {"sem_w", "fork"}
                        /\ program = "sem" => pc'[r] = "sem_w"
                        /\ child'[r] = child[r] /\ shm_id'[r] = shm_id[r]
                        /\ UNCHANGED <<sem_w, sem_r, failed>>
                        /\ data' = [data EXCEPT ![shm_id[r]] = {}]
  BY <1>1 DEF Shmget, Shmat, ZeroData, Goto, MainGoes
<1>4. InitSems(r) =>
        /\ \/ /\ MainGoes(r, "sem_w", "sem_r") /\ UNCHANGED sem_r
              /\ sem_w' = [sem_w EXCEPT ![shm_id[r]] = 1]
           \/ /\ MainGoes(r, "sem_r", "fork") /\ UNCHANGED sem_w
              /\ sem_r' = [sem_r EXCEPT ![shm_id[r]] = 0]
        /\ UNCHANGED <<data, failed>>
  BY <1>1 DEF InitSems, sem_init, Goto, MainGoes
<1>5. /\ Fork(r) => /\ pc[r] = "fork" /\ child[r] = "off"
                    /\ shm_id'[r] = shm_id[r]
                    /\ UNCHANGED <<segvars, failed>>
                    /\ program = "sem" => pc'[r] = "wait_w" /\ child'[r] = "wait_r"
                    /\ program = "plain" => pc'[r] = "write" /\ child'[r] = "sleep"
      /\ WaitW(r) => /\ MainGoes(r, "wait_w", "write")
                     /\ sem_w' = [sem_w EXCEPT ![shm_id[r]] = @ - 1]
                     /\ UNCHANGED <<data, sem_r, failed>>
      /\ WriteCell(r) => /\ pc[r] = "write" /\ pc'[r] \in {"write", "post_r", "shmdt"}
                         /\ program = "sem" => pc'[r] \in {"write", "post_r"}
                         /\ child'[r] = child[r] /\ shm_id'[r] = shm_id[r]
                         /\ UNCHANGED <<sem_w, sem_r, failed>>
      /\ PostR(r) => /\ MainGoes(r, "post_r", "shmdt")
                     /\ sem_r' = [sem_r EXCEPT ![shm_id[r]] = @ + 1]
                     /\ UNCHANGED <<data, sem_w, failed>>
  BY <1>1 DEF Fork, WaitW, WriteCell, PostR, Goto, ChildGoto, MainGoes, sem_wait, sem_post
<1>6. /\ Wake(r) => /\ ChildGoes(r, "sleep", "read")
                    /\ UNCHANGED <<segvars, failed>>
      /\ WaitR(r) => /\ ChildGoes(r, "wait_r", "read") /\ sem_r[shm_id[r]] > 0
                     /\ sem_r' = [sem_r EXCEPT ![shm_id[r]] = @ - 1]
                     /\ UNCHANGED <<data, sem_w, failed>>
      /\ ReadCell(r) => /\ child[r] = "read"
                        /\ child'[r] \in {"read", "post_w", "done"}
                        /\ program = "sem" => child'[r] \in {"read", "post_w"}
                        /\ pc'[r] = pc[r] /\ shm_id'[r] = shm_id[r]
                        /\ UNCHANGED <<segvars, failed>>
      /\ PostW(r) => /\ ChildGoes(r, "post_w", "done")
                     /\ sem_w' = [sem_w EXCEPT ![shm_id[r]] = @ + 1]
                     /\ UNCHANGED <<data, sem_r, failed>>
  BY <1>1 DEF Wake, WaitR, ReadCell, PostW, ChildGoto, ChildGoes, sem_wait, sem_post
<1>7. /\ Shmdt(r) => /\ Parts(r) /\ pc[r] = "shmdt" /\ pc'[r] = "rmid"
                     /\ child'[r] = child[r] /\ UNCHANGED failed
      /\ Rmid(r) => /\ Parts(r) /\ pc[r] = "rmid" /\ pc'[r] = "off"
                    /\ child'[r] = child[r] /\ UNCHANGED failed
      /\ ChildEnds(r) => /\ Parts(r) /\ child[r] = "done" /\ child'[r] = "off"
                         /\ pc'[r] = pc[r] /\ UNCHANGED failed
      /\ Fails(r) \/ Kill(r) =>
           /\ Parts(r) /\ pc'[r] \in {"off", pc[r]} /\ child'[r] \in {"off", child[r]}
           /\ failed' = TRUE
      /\ Stir(r) => /\ pc'[r] = pc[r] /\ child'[r] = child[r] /\ shm_id'[r] = shm_id[r]
                    /\ UNCHANGED <<data, sem_w, sem_r, i, seen, failed>>
  BY <1>1, <1>2 DEF Shmdt, Rmid, ChildEnds, Fails, Kill, Stir, Goto, ChildGoto
<1> QED BY <1>3, <1>4, <1>5, <1>6, <1>7

-----------------------------------------------------------------------------
(* Only shmget and IPC_RMID change what the key stands for.                *)
LEMMA KeyKept ==
  ASSUME NEW r \in Run, Does(r), ~Shmget(r), ~Rmid(r)
  PROVE  UNCHANGED key
BY DEF Does, Main, Parent, Child, Shmat, ZeroData, InitSems, Fork, Fails, WaitW,
       WriteCell, PostR, Shmdt, Wake, WaitR, ReadCell, PostW, ChildEnds, Kill, Stir

(* Main and the parent go on, with their segment, until they remove it.    *)
LEMMA MainGoesOn ==
  ASSUME BaseInv, NEW r \in Run, Does(r), UNCHANGED program,
         pc[r] # "off", ~Rmid(r), ~failed'
  PROVE  pc'[r] # "off" /\ shm_id'[r] = shm_id[r]
<1>1. CASE Shmat(r) \/ ZeroData(r) \/ InitSems(r) \/ Stir(r)
  BY <1>1, Points DEF MainGoes
<1>2. CASE Fork(r)
  BY <1>2, Points DEF BaseInv, Types
<1>3. CASE WaitW(r) \/ WriteCell(r) \/ PostR(r)
  BY <1>3, Points DEF MainGoes
<1>4. CASE Wake(r) \/ WaitR(r) \/ ReadCell(r) \/ PostW(r)
  BY <1>4, Points DEF ChildGoes
<1>5. CASE Shmdt(r) \/ ChildEnds(r)
  BY <1>5, Points DEF Parts, Over
<1>6. ~Shmget(r)
  BY DEF Shmget, Goto
<1>7. ~Fails(r) /\ ~Kill(r)
  BY Points
<1> QED BY <1>1, <1>2, <1>3, <1>4, <1>5, <1>6, <1>7 DEF Does, Main, Parent, Child

(* The run that made the key, or another, has yet to remove it.            *)
LEMMA NextRemoved ==
  ASSUME BaseInv, SegmentRemoved, [Next]_vars
  PROVE  SegmentRemoved'
<1>1. CASE UNCHANGED vars
  BY <1>1 DEF vars, segvars, notes, SegmentRemoved, Users
<1>2. CASE Next
  <2>1. PICK r \in Run : Does(r) /\ UNCHANGED program /\ Note
    BY <1>2, NextDoes
  <2>2. Shape(r)
    BY <2>1, ShapeOf DEF BaseInv
  <2>3. SUFFICES ASSUME key' # NoSegment, ~failed'
                 PROVE  \E q \in Run : shm_id'[q] = key' /\ pc'[q] # "off"
    BY DEF SegmentRemoved, Users
  <2>4. CASE Shmget(r)
    <3>1. PICK g \in Segment : key' = g /\ shm_id' = [shm_id EXCEPT ![r] = g]
      BY <2>4 DEF Shmget
    <3>2. pc'[r] = "shmat" /\ shm_id'[r] = g
      BY <2>1, <2>4, <3>1, Points DEF BaseInv, Types, TypeOK
    <3> QED BY <3>1, <3>2
  <2>5. CASE ~Shmget(r)
    <3>1. key' = key /\ (Rmid(r) => key # shm_id[r])
      BY <2>1, <2>3, <2>5, KeyKept DEF Rmid
    <3>2. ~failed
      BY <2>1, <2>3 DEF Does, Main, Parent, Child, Shmget, Shmat, ZeroData, InitSems,
         Fork, Fails, WaitW, WriteCell, PostR, Shmdt, Rmid, Wake, WaitR, ReadCell,
         PostW, ChildEnds, Kill, Stir
    <3>3. PICK q \in Run : shm_id[q] = key /\ pc[q] # "off"
      BY <2>3, <3>1, <3>2 DEF SegmentRemoved, Users
    <3>4. CASE q = r
      BY <2>1, <2>3, <3>1, <3>3, <3>4, MainGoesOn
    <3>5. CASE q # r
      BY <2>2, <3>1, <3>3, <3>5 DEF Shape, Untouched
    <3> QED BY <3>4, <3>5
  <2> QED BY <2>4, <2>5
<1> QED BY <1>1, <1>2

(* While no process is killed and main does not fail, there is always a    *)
(* run that has yet to remove the segment of the key.                      *)
THEOREM LastRemoves == Spec => []SegmentRemoved
<1>1. Init => SegmentRemoved
  BY DEF Init, SegmentRemoved
<1> QED BY <1>1, BaseInvariance, NextRemoved, PTL DEF Spec

-----------------------------------------------------------------------------
(* A segment that is disturbed is noted.                                   *)
NotedInv == \A g \in Segment : Disturbance(g) => g \in disturbed

(* A segment that is disturbed is used.                                    *)
LEMMA DisturbedAttached ==
  ASSUME NEW g \in Segment
  PROVE  Disturbance(g) => Attached(g)
BY DEF Disturbance, SettingUp, Attached

(* At first no segment is used.                                            *)
LEMMA InitNoted == Init => NotedInv
BY DEF Init, NotedInv, Disturbance, SettingUp, Users

(* Note takes down each disturbance when it begins.                        *)
LEMMA NextNoted ==
  ASSUME NotedInv, [Next]_vars
  PROVE  NotedInv'
<1>1. CASE UNCHANGED vars
  BY <1>1 DEF vars, segvars, notes, NotedInv, Disturbance, SettingUp,
              Writing, Reading, Waiters, Users
<1>2. CASE Next
  <2>1. Note
    BY <1>2, NextDoes
  <2>2. \A g \in Segment : Disturbance(g)' => Attached(g)'
    BY DEF Disturbance, SettingUp, Attached, Users
  <2> QED BY <2>1, <2>2 DEF Note, NotedInv
<1> QED BY <1>1, <1>2

(* Nobody disturbs a segment before or after a step that leaves it in use  *)
(* and in order.                                                           *)
LEMMA InOrder ==
  ASSUME NotedInv, Note, NEW g \in Segment, g \notin disturbed', Attached(g)'
  PROVE  g \notin disturbed /\ ~Disturbance(g) /\ ~Disturbance(g)'
BY DEF NotedInv, Note

-----------------------------------------------------------------------------
(* The sets of runs at a segment change by the run that makes the step.    *)
LEMMA SetsBut ==
  ASSUME NEW r \in Run, Shape(r), NEW g \in Segment
  PROVE  /\ Users(g)' \ {r} = Users(g) \ {r}
         /\ Writing(g)' \ {r} = Writing(g) \ {r}
         /\ Reading(g)' \ {r} = Reading(g) \ {r}
         /\ Waiting(g)' \ {r} = Waiting(g) \ {r}
         /\ ToWrite(g)' \ {r} = ToWrite(g) \ {r}
         /\ Past(g)' \ {r} = Past(g) \ {r}
<1>1. \A q \in Run \ {r} : Untouched(q)
  BY DEF Shape
<1> USE <1>1 DEF Untouched, Users
<1>2. Users(g)' \ {r} = Users(g) \ {r}
  OBVIOUS
<1>3. Writing(g)' \ {r} = Writing(g) \ {r}
  BY DEF Writing
<1>4. Reading(g)' \ {r} = Reading(g) \ {r}
  BY DEF Reading
<1>5. Waiting(g)' \ {r} = Waiting(g) \ {r}
  BY DEF Waiting
<1>6. ToWrite(g)' \ {r} = ToWrite(g) \ {r}
  BY DEF ToWrite
<1>7. Past(g)' \ {r} = Past(g) \ {r}
  BY DEF Past
<1> QED BY <1>2, <1>3, <1>4, <1>5, <1>6, <1>7

(* At a segment other than its own, before the step, a run changes         *)
(* nothing that counts, but that the segment may be destroyed.             *)
LEMMA Elsewhere ==
  ASSUME BaseInv, NEW r \in Run, Does(r), UNCHANGED program,
         NEW g \in Segment, g # shm_id[r]
  PROVE  /\ Keeps(g) \/ Wiped(g)
         /\ Attached(g)' => Attached(g)
         /\ r \notin Users(g)
         /\ r \notin Writing(g)' \cup Reading(g)' \cup Waiting(g)' \cup ToWrite(g)' \cup Past(g)'
<1>1. Shape(r)
  BY ShapeOf DEF BaseInv
<1>2. /\ data \in [Segment -> SUBSET Cell]
      /\ sem_w \in [Segment -> Nat] /\ sem_r \in [Segment -> Nat]
      /\ NoSegment \notin Segment
  BY ProcessSyncAssumption DEF BaseInv, Types, TypeOK
<1>3. Keeps(g) \/ Wiped(g)
  <2>1. CASE Shmget(r) \/ Shmat(r) \/ Fork(r) \/ Wake(r) \/ ReadCell(r) \/ Stir(r)
    BY <2>1, Points DEF Keeps, segvars
  <2>2. CASE ZeroData(r) \/ InitSems(r)
    BY <1>2, <2>2, Points DEF Keeps
  <2>3. CASE WaitW(r) \/ PostR(r) \/ WaitR(r) \/ PostW(r)
    BY <1>2, <2>3, Points DEF Keeps
  <2>4. CASE WriteCell(r)
    <3>1. data' = [data EXCEPT ![shm_id[r]] = @ \cup {i[r]}] /\ UNCHANGED <<sem_w, sem_r>>
      BY <2>4 DEF WriteCell
    <3> QED BY <1>2, <3>1 DEF Keeps
  <2>5. CASE Shmdt(r) \/ Rmid(r) \/ ChildEnds(r) \/ Fails(r) \/ Kill(r)
    BY <2>5, Points DEF Parts
  <2> QED BY <2>1, <2>2, <2>3, <2>4, <2>5 DEF Does, Main, Parent, Child
<1>4. \/ shm_id'[r] # g
      \/ pc'[r] = "shmat" /\ child'[r] = "off"
  <2>1. CASE Shmget(r)
    BY <2>1, Points
  <2>2. CASE Shmat(r) \/ Fork(r) \/ Wake(r) \/ ReadCell(r) \/ ZeroData(r) \/ InitSems(r)
    BY <2>2, Points DEF MainGoes, ChildGoes
  <2>3. CASE WaitW(r) \/ PostR(r) \/ WaitR(r) \/ PostW(r) \/ WriteCell(r) \/ Stir(r)
    BY <2>3, Points DEF MainGoes, ChildGoes
  <2>4. CASE Shmdt(r) \/ Rmid(r) \/ ChildEnds(r) \/ Fails(r) \/ Kill(r)
    <3>1. shm_id'[r] \in {NoSegment, shm_id[r]}
      BY <2>4, Points DEF Parts
    <3> QED BY <1>2, <3>1
  <2> QED BY <2>1, <2>2, <2>3, <2>4 DEF Does, Main, Parent, Child
<1>5. r \notin Writing(g)' \cup Reading(g)' \cup Waiting(g)' \cup ToWrite(g)' \cup Past(g)'
  BY <1>4 DEF Writing, Reading, Waiting, ToWrite, Past, Users
<1>6. ASSUME Attached(g)'
      PROVE  Attached(g)
  <2>1. PICK q \in Run : /\ shm_id'[q] = g
                         /\ pc'[q] \notin {"off", "shmat", "rmid"} \/ child'[q] # "off"
    BY <1>6 DEF Attached, Users
  <2>2. q # r
    BY <1>4, <2>1
  <2> QED BY <1>1, <2>1, <2>2 DEF Shape, Untouched, Attached, Users
<1> QED BY <1>3, <1>5, <1>6 DEF Users

-----------------------------------------------------------------------------
(* Finitely many runs use a segment, however many there are.               *)
FiniteInv == IsFiniteSet({r \in Run : shm_id[r] # NoSegment})

(* At first there is none.                                                 *)
LEMMA InitFinite == Init => FiniteInv
<1> SUFFICES ASSUME Init
             PROVE  FiniteInv
  OBVIOUS
<1>1. {r \in Run : shm_id[r] # NoSegment} = {}
  BY DEF Init
<1> QED BY <1>1, FS_EmptySet DEF FiniteInv

(* A step brings one run at most.                                          *)
LEMMA NextFinite ==
  ASSUME BaseInv, FiniteInv, [Next]_vars
  PROVE  FiniteInv'
<1>1. CASE UNCHANGED vars
  BY <1>1 DEF vars, FiniteInv
<1>2. CASE Next
  <2>1. PICK r \in Run : Does(r) /\ UNCHANGED program /\ Note
    BY <1>2, NextDoes
  <2>2. Shape(r)
    BY <2>1, ShapeOf DEF BaseInv
  <2> DEFINE S == {q \in Run : shm_id[q] # NoSegment}
             T == {q \in Run : shm_id'[q] # NoSegment}
  <2>3. T \subseteq S \cup {r}
    BY <2>2 DEF Shape, Untouched
  <2>4. IsFiniteSet(S \cup {r})
    BY FS_AddElement DEF FiniteInv
  <2>5. IsFiniteSet(T)
    BY <2>3, <2>4, FS_Subset
  <2> QED BY <2>5 DEF FiniteInv
<1> QED BY <1>1, <1>2

(* How much a member counts.                                               *)
One(p) == IF p THEN 1 ELSE 0

(* How a cardinality depends on one element.                               *)
LEMMA CountOne ==
  ASSUME NEW S, IsFiniteSet(S), NEW x
  PROVE  /\ Cardinality(S \ {x}) \in Nat
         /\ Cardinality(S) = Cardinality(S \ {x}) + One(x \in S)
<1>1. Cardinality(S) \in Nat /\ Cardinality(S \ {x}) \in Nat
  BY FS_CardinalityType, FS_RemoveElement
<1>2. CASE x \in S
  <2>1. Cardinality(S \ {x}) = Cardinality(S) - 1
    BY <1>2, FS_RemoveElement
  <2> QED BY <1>1, <1>2, <2>1 DEF One
<1>3. CASE x \notin S
  <2>1. S \ {x} = S
    BY <1>3
  <2> QED BY <1>1, <1>3, <2>1 DEF One
<1> QED BY <1>2, <1>3

(* The sets that are counted are finite.                                   *)
LEMMA SetsFinite ==
  ASSUME FiniteInv, NEW g \in Segment
  PROVE  /\ IsFiniteSet(Writing(g)) /\ IsFiniteSet(Reading(g))
         /\ IsFiniteSet(Waiting(g)) /\ IsFiniteSet(ToWrite(g))
<1> DEFINE S == {r \in Run : shm_id[r] # NoSegment}
<1>1. /\ Writing(g) \subseteq S /\ Reading(g) \subseteq S
      /\ Waiting(g) \subseteq S /\ ToWrite(g) \subseteq S
  BY ProcessSyncAssumption DEF Writing, Reading, Waiting, ToWrite, Users
<1>2. IsFiniteSet(S)
  BY DEF FiniteInv
<1> QED BY <1>1, <1>2, FS_Subset

(* What a step does to the tokens of a segment and to its debts: the run   *)
(* that makes the step counts, the others are the same.                    *)
LEMMA Counted ==
  ASSUME FiniteInv, FiniteInv', NEW r \in Run, Shape(r), NEW g \in Segment
  PROVE  \E a, b, m, n \in Nat :
           /\ Tokens(g) = ((sem_w[g] + sem_r[g]) + (a + One(r \in Writing(g))))
                          + (b + One(r \in Reading(g)))
           /\ Tokens(g)' = ((sem_w'[g] + sem_r'[g]) + (a + One(r \in Writing(g)')))
                           + (b + One(r \in Reading(g)'))
           /\ Cardinality(ToWrite(g)) = m + One(r \in ToWrite(g))
           /\ Cardinality(ToWrite(g)') = m + One(r \in ToWrite(g)')
           /\ Cardinality(Waiting(g)) = n + One(r \in Waiting(g))
           /\ Cardinality(Waiting(g)') = n + One(r \in Waiting(g)')
<1>1. /\ IsFiniteSet(Writing(g)) /\ IsFiniteSet(Reading(g))
      /\ IsFiniteSet(Waiting(g)) /\ IsFiniteSet(ToWrite(g))
  BY SetsFinite
<1>2. /\ IsFiniteSet(Writing(g)') /\ IsFiniteSet(Reading(g)')
      /\ IsFiniteSet(Waiting(g)') /\ IsFiniteSet(ToWrite(g)')
  <2> DEFINE S == {q \in Run : shm_id'[q] # NoSegment}
  <2>1. /\ Writing(g)' \subseteq S /\ Reading(g)' \subseteq S
        /\ Waiting(g)' \subseteq S /\ ToWrite(g)' \subseteq S
    BY ProcessSyncAssumption DEF Writing, Reading, Waiting, ToWrite, Users
  <2>2. IsFiniteSet(S)
    BY DEF FiniteInv
  <2> QED BY <2>1, <2>2, FS_Subset
<1> DEFINE a == Cardinality(Writing(g) \ {r})
           b == Cardinality(Reading(g) \ {r})
           m == Cardinality(ToWrite(g) \ {r})
           n == Cardinality(Waiting(g) \ {r})
<1>3. /\ a \in Nat /\ Cardinality(Writing(g)) = a + One(r \in Writing(g))
      /\ b \in Nat /\ Cardinality(Reading(g)) = b + One(r \in Reading(g))
      /\ m \in Nat /\ Cardinality(ToWrite(g)) = m + One(r \in ToWrite(g))
      /\ n \in Nat /\ Cardinality(Waiting(g)) = n + One(r \in Waiting(g))
  BY <1>1, CountOne
<1>4. /\ Writing(g)' \ {r} = Writing(g) \ {r} /\ Reading(g)' \ {r} = Reading(g) \ {r}
      /\ Waiting(g)' \ {r} = Waiting(g) \ {r} /\ ToWrite(g)' \ {r} = ToWrite(g) \ {r}
  BY SetsBut
<1>5. /\ Cardinality(Writing(g)') = Cardinality(Writing(g)' \ {r}) + One(r \in Writing(g)')
      /\ Cardinality(Reading(g)') = Cardinality(Reading(g)' \ {r}) + One(r \in Reading(g)')
      /\ Cardinality(ToWrite(g)') = Cardinality(ToWrite(g)' \ {r}) + One(r \in ToWrite(g)')
      /\ Cardinality(Waiting(g)') = Cardinality(Waiting(g)' \ {r}) + One(r \in Waiting(g)')
  BY <1>2, CountOne
<1>6. /\ Cardinality(Writing(g)') = a + One(r \in Writing(g)')
      /\ Cardinality(Reading(g)') = b + One(r \in Reading(g)')
      /\ Cardinality(ToWrite(g)') = m + One(r \in ToWrite(g)')
      /\ Cardinality(Waiting(g)') = n + One(r \in Waiting(g)')
  BY <1>4, <1>5
<1>7. /\ Tokens(g) = ((sem_w[g] + sem_r[g]) + (a + One(r \in Writing(g))))
                     + (b + One(r \in Reading(g)))
      /\ Tokens(g)' = ((sem_w'[g] + sem_r'[g]) + (a + One(r \in Writing(g)')))
                      + (b + One(r \in Reading(g)'))
  BY <1>3, <1>6 DEF Tokens
<1> HIDE DEF a, b, m, n
<1> QED BY <1>3, <1>6, <1>7

-----------------------------------------------------------------------------
(* Where run r is counted at its own segment g, and that the others are    *)
(* not told apart.                                                         *)
Counts(r, g) ==
  /\ r \in Writing(g) <=> pc[r] \in {"write", "post_r"}
  /\ r \in Reading(g) <=> child[r] \in {"sleep", "read", "post_w"}
  /\ r \in Waiting(g) <=> child[r] = "wait_r"
  /\ r \in ToWrite(g) <=> pc[r] \in {"wait_w", "write", "post_r"}
  /\ r \in Past(g) <=> \/ pc[r] \in {"sem_r", "fork", "wait_w", "write", "post_r", "shmdt"}
                       \/ child[r] # "off"

(* A run is counted at its segment as its two processes say.               *)
LEMMA CountsHere ==
  ASSUME NEW r \in Run
  PROVE  /\ Counts(r, shm_id[r])
         /\ \A g \in Segment : shm_id'[r] = g => Counts(r, g)'
<1>1. Counts(r, shm_id[r])
  BY DEF Counts, Writing, Reading, Waiting, ToWrite, Past, Users
<1>2. ASSUME NEW g \in Segment, shm_id'[r] = g
      PROVE  Counts(r, g)'
  BY <1>2 DEF Counts, Writing, Reading, Waiting, ToWrite, Past, Users
<1> QED BY <1>1, <1>2

(* A run that is gone is counted nowhere, as if it were still there.       *)
LEMMA CountsGone ==
  ASSUME NEW r \in Run, NEW g \in Segment, shm_id'[r] = NoSegment, Over(r)'
  PROVE  Counts(r, g)'
BY ProcessSyncAssumption DEF Counts, Writing, Reading, Waiting, ToWrite, Past, Users, Over

(* That a process was killed is never forgotten.                           *)
LEMMA FailedStays ==
  ASSUME NEW r \in Run, Does(r)
  PROVE  failed => failed'
BY DEF Does, Main, Parent, Child, Shmget, Shmat, ZeroData, InitSems, Fork, Fails, WaitW,
       WriteCell, PostR, Shmdt, Rmid, Wake, WaitR, ReadCell, PostW, ChildEnds, Kill, Stir

(* One token, or none if the process that had it was killed.               *)
Balanced(g) == Tokens(g) <= 1 /\ (~failed => Tokens(g) = 1)

(* That is so once a run has initialised sem_w, until all have left.  While*)
(* sem_r is yet to be initialised it is 0 unless the segment is disturbed. *)
TokenInv ==
  program = "sem" =>
    \A g \in Segment \ disturbed : Past(g) # {} => Balanced(g)

(* A step moves the token, makes the first one, or loses it to a signal.   *)
LEMMA TokenStep ==
  ASSUME BaseInv, FiniteInv, FiniteInv', NotedInv, TokenInv,
         NEW r \in Run, Does(r), UNCHANGED program, Note,
         program = "sem", NEW g \in Segment, g \notin disturbed', Past(g)' # {}
  PROVE  Balanced(g)'
<1>1. Attached(g)'
  BY DEF Past, Attached, Users
<1>2. g \notin disturbed /\ ~Disturbance(g) /\ ~Disturbance(g)'
  BY <1>1, InOrder
<1>3. Shape(r) /\ (failed => failed')
  BY ShapeOf, FailedStays DEF BaseInv
<1>4. /\ sem_w[g] \in Nat /\ sem_r[g] \in Nat /\ sem_w'[g] \in Nat /\ sem_r'[g] \in Nat
  BY <1>3 DEF BaseInv, Types, TypeOK, Shape, SegTypes
<1>5. PICK a, b \in Nat :
        /\ Tokens(g) = ((sem_w[g] + sem_r[g]) + (a + One(r \in Writing(g))))
                       + (b + One(r \in Reading(g)))
        /\ Tokens(g)' = ((sem_w'[g] + sem_r'[g]) + (a + One(r \in Writing(g)')))
                        + (b + One(r \in Reading(g)'))
  BY <1>3, Counted
<1>6. Exists(g)' /\ sem_w \in [Segment -> Nat] /\ sem_r \in [Segment -> Nat]
  BY <1>1 DEF Exists, BaseInv, Types, TypeOK
<1>7. Past(g) # {} => Balanced(g)
  BY <1>2 DEF TokenInv
<1>8. Past(g)' \ {r} = Past(g) \ {r}
  BY <1>3, SetsBut
<1>9. CASE g # shm_id[r]
  <2>1. /\ sem_w'[g] = sem_w[g] /\ sem_r'[g] = sem_r[g]
        /\ r \notin Writing(g)' /\ r \notin Reading(g)' /\ r \notin Past(g)'
        /\ r \notin Users(g)
    BY <1>6, <1>9, Elsewhere DEF Keeps, Wiped
  <2>2. r \notin Writing(g) /\ r \notin Reading(g)
    BY <2>1 DEF Writing, Reading
  <2>3. Past(g) # {}
    BY <1>8, <2>1
  <2>4. Tokens(g)' = Tokens(g)
    BY <1>5, <2>1, <2>2
  <2> QED BY <1>3, <1>7, <2>3, <2>4 DEF Balanced
<1>10. CASE g = shm_id[r]
  <2>1. Counts(r, g)
    BY <1>10, CountsHere
  <2>2. ~Shmget(r)
    BY <1>10, Points, ProcessSyncAssumption DEF BaseInv, RunInv
  <2>3. RunInv(r)
    BY DEF BaseInv
  <2>4. ASSUME r \in Past(g)' => r \in Past(g)
        PROVE  Past(g) # {} /\ Balanced(g)
    BY <1>7, <1>8, <2>4
  <2>5. ASSUME shm_id'[r] = g
        PROVE  Counts(r, g)'
    BY <2>5, CountsHere
  <2>6. CASE \/ Shmat(r) \/ ZeroData(r) \/ Fork(r) \/ WriteCell(r) \/ ReadCell(r)
             \/ Stir(r)
    <3>1. shm_id'[r] = g /\ UNCHANGED <<sem_w, sem_r>>
      BY <1>10, <2>6, Points DEF MainGoes, segvars
    <3>2. /\ r \in Past(g)' => r \in Past(g)
          /\ r \in Writing(g)' <=> r \in Writing(g)
          /\ r \in Reading(g)' <=> r \in Reading(g)
      BY <2>1, <2>3, <2>5, <2>6, <3>1, Points DEF MainGoes, Counts, RunInv, Before
    <3>3. Tokens(g)' = Tokens(g)
      BY <1>5, <3>1, <3>2
    <3> QED BY <1>3, <2>4, <3>2, <3>3 DEF Balanced
  <2>7. CASE InitSems(r)
    <3>1. CASE MainGoes(r, "sem_w", "sem_r") /\ sem_w' = [sem_w EXCEPT ![shm_id[r]] = 1]
      <4>1. sem_w'[g] = 1 /\ SettingUp(g)'
        BY <1>6, <1>10, <3>1 DEF MainGoes, SettingUp, Users
      <4>2. Writing(g)' = {} /\ Reading(g)' = {} /\ sem_r'[g] = 0
        BY <1>2, <1>4, <4>1 DEF Disturbance
      <4>3. Cardinality(Writing(g)') = 0 /\ Cardinality(Reading(g)') = 0
        BY <4>2, FS_EmptySet
      <4>4. Tokens(g)' = 1
        BY <4>1, <4>2, <4>3 DEF Tokens
      <4> QED BY <4>4 DEF Balanced
    <3>2. CASE /\ MainGoes(r, "sem_r", "fork") /\ UNCHANGED sem_w
               /\ sem_r' = [sem_r EXCEPT ![shm_id[r]] = 0]
      <4>1. sem_r[g] = 0
        BY <1>2, <1>4, <1>10, <3>2 DEF MainGoes, SettingUp, Users, Disturbance
      <4>2. sem_w'[g] = sem_w[g] /\ sem_r'[g] = sem_r[g] /\ shm_id'[r] = g
        BY <1>6, <1>10, <3>2, <4>1 DEF MainGoes
      <4>3. /\ r \in Past(g)
            /\ r \in Writing(g)' <=> r \in Writing(g)
            /\ r \in Reading(g)' <=> r \in Reading(g)
        BY <2>1, <2>5, <3>2, <4>2 DEF MainGoes, Counts
      <4>4. Tokens(g)' = Tokens(g)
        BY <1>5, <4>2, <4>3
      <4> QED BY <1>3, <2>4, <4>3, <4>4 DEF Balanced
    <3> QED BY <2>7, <3>1, <3>2, Points
  <2>8. CASE WaitW(r)
    <3>1. /\ MainGoes(r, "wait_w", "write") /\ shm_id'[r] = g
          /\ sem_w'[g] = sem_w[g] - 1 /\ sem_r'[g] = sem_r[g]
      BY <1>6, <1>10, <2>8, Points DEF MainGoes
    <3>2. /\ r \in Past(g) /\ r \in Writing(g)' /\ r \notin Writing(g)
          /\ r \in Reading(g)' <=> r \in Reading(g)
      BY <2>1, <2>5, <3>1 DEF MainGoes, Counts
    <3>3. Tokens(g)' = Tokens(g)
      BY <1>4, <1>5, <3>1, <3>2 DEF One
    <3> QED BY <1>3, <2>4, <3>2, <3>3 DEF Balanced
  <2>9. CASE PostR(r)
    <3>1. /\ MainGoes(r, "post_r", "shmdt") /\ shm_id'[r] = g
          /\ sem_r'[g] = sem_r[g] + 1 /\ sem_w'[g] = sem_w[g]
      BY <1>6, <1>10, <2>9, Points DEF MainGoes
    <3>2. /\ r \in Past(g) /\ r \notin Writing(g)' /\ r \in Writing(g)
          /\ r \in Reading(g)' <=> r \in Reading(g)
      BY <2>1, <2>5, <3>1 DEF MainGoes, Counts
    <3>3. Tokens(g)' = Tokens(g)
      BY <1>4, <1>5, <3>1, <3>2 DEF One
    <3> QED BY <1>3, <2>4, <3>2, <3>3 DEF Balanced
  <2>10. CASE WaitR(r)
    <3>1. /\ ChildGoes(r, "wait_r", "read") /\ shm_id'[r] = g
          /\ sem_r'[g] = sem_r[g] - 1 /\ sem_w'[g] = sem_w[g]
      BY <1>6, <1>10, <2>10, Points DEF ChildGoes
    <3>2. /\ r \in Past(g) /\ r \in Reading(g)' /\ r \notin Reading(g)
          /\ r \in Writing(g)' <=> r \in Writing(g)
      BY <2>1, <2>5, <3>1 DEF ChildGoes, Counts
    <3>3. Tokens(g)' = Tokens(g)
      BY <1>4, <1>5, <3>1, <3>2 DEF One
    <3> QED BY <1>3, <2>4, <3>2, <3>3 DEF Balanced
  <2>11. CASE PostW(r)
    <3>1. /\ ChildGoes(r, "post_w", "done") /\ shm_id'[r] = g
          /\ sem_w'[g] = sem_w[g] + 1 /\ sem_r'[g] = sem_r[g]
      BY <1>6, <1>10, <2>11, Points DEF ChildGoes
    <3>2. /\ r \in Past(g) /\ r \notin Reading(g)' /\ r \in Reading(g)
          /\ r \in Writing(g)' <=> r \in Writing(g)
      BY <2>1, <2>5, <3>1 DEF ChildGoes, Counts
    <3>3. Tokens(g)' = Tokens(g)
      BY <1>4, <1>5, <3>1, <3>2 DEF One
    <3> QED BY <1>3, <2>4, <3>2, <3>3 DEF Balanced
  <2>12. ~Wake(r)
    BY <2>3, Points DEF ChildGoes, RunInv
  <2>13. ASSUME Parts(r)
         PROVE  /\ sem_w'[g] = sem_w[g] /\ sem_r'[g] = sem_r[g]
                /\ Counts(r, g)'
    <3>1. Keeps(g) /\ shm_id'[r] = IF Over(r)' THEN NoSegment ELSE g
      BY <1>6, <1>10, <2>13 DEF Parts
    <3> QED BY <2>5, <3>1, CountsGone DEF Keeps
  <2>14. CASE Shmdt(r) \/ Rmid(r) \/ ChildEnds(r)
    <3>1. Parts(r)
      BY <2>14, Points
    <3>2. /\ r \in Past(g)' => r \in Past(g)
          /\ r \in Writing(g)' <=> r \in Writing(g)
          /\ r \in Reading(g)' <=> r \in Reading(g)
      BY <2>1, <2>13, <2>14, <3>1, Points DEF Counts
    <3>3. Tokens(g)' = Tokens(g)
      BY <1>5, <2>13, <3>1, <3>2
    <3> QED BY <1>3, <2>4, <3>2, <3>3 DEF Balanced
  <2>15. CASE Fails(r) \/ Kill(r)
    <3>1. Parts(r) /\ failed' /\ pc'[r] \in {"off", pc[r]} /\ child'[r] \in {"off", child[r]}
      BY <2>15, Points
    <3>2. /\ r \in Past(g)' => r \in Past(g)
          /\ r \in Writing(g)' => r \in Writing(g)
          /\ r \in Reading(g)' => r \in Reading(g)
      BY <2>1, <2>13, <3>1 DEF Counts
    <3>3. /\ One(r \in Writing(g)') \in {0, 1} /\ One(r \in Writing(g)) \in {0, 1}
          /\ One(r \in Reading(g)') \in {0, 1} /\ One(r \in Reading(g)) \in {0, 1}
          /\ One(r \in Writing(g)') <= One(r \in Writing(g))
          /\ One(r \in Reading(g)') <= One(r \in Reading(g))
      BY <3>2 DEF One
    <3>4. Tokens(g) <= 1
      BY <2>4, <3>2 DEF Balanced
    <3>5. Tokens(g)' <= 1
      BY <1>4, <1>5, <2>13, <3>1, <3>3, <3>4
    <3> QED BY <3>1, <3>5 DEF Balanced
  <2> QED BY <2>2, <2>6, <2>7, <2>8, <2>9, <2>10, <2>11, <2>12, <2>14, <2>15
          DEF Does, Main, Parent, Child
<1> QED BY <1>9, <1>10

(* At first nobody uses a semaphore.                                       *)
LEMMA InitToken == Init => TokenInv
BY ProcessSyncAssumption DEF Init, TokenInv, Past, Users

(* What the invariants of the segments rest on, and what is the same when  *)
(* nothing happens.                                                        *)
UseInv == BaseInv /\ FiniteInv /\ NotedInv /\ TokenInv

(* They are inductive together.                                            *)
LEMMA NextUse ==
  ASSUME UseInv, [Next]_vars
  PROVE  UseInv'
<1>1. BaseInv' /\ FiniteInv' /\ NotedInv'
  BY NextBase, NextFinite, NextNoted DEF UseInv
<1>2. CASE UNCHANGED vars
  <2>1. TokenInv'
    BY <1>2 DEF vars, segvars, notes, UseInv, TokenInv, Balanced, Past, Tokens,
                Writing, Reading, Users
  <2> QED BY <1>1, <2>1 DEF UseInv
<1>3. CASE Next
  <2>1. PICK r \in Run : Does(r) /\ UNCHANGED program /\ Note
    BY <1>3, NextDoes
  <2>2. TokenInv'
    BY <1>1, <2>1, TokenStep DEF UseInv, TokenInv
  <2> QED BY <1>1, <2>2 DEF UseInv
<1> QED BY <1>2, <1>3

(* So they hold forever.                                                   *)
LEMMA UseInvariance == Spec => []UseInv
<1>1. Init => UseInv
  BY InitBase, InitFinite, InitNoted, InitToken DEF UseInv
<1>2. UseInv /\ [Next]_vars => UseInv'
  BY NextUse
<1> QED BY <1>1, <1>2, PTL DEF Spec

(* Whoever has got beyond setting a segment up is counted there.           *)
LEMMA BeyondSetup ==
  ASSUME BaseInv, NEW g \in Segment, Attached(g), ~SettingUp(g)
  PROVE  Past(g) # {}
<1>1. PICK r \in Run : /\ shm_id[r] = g
                       /\ pc[r] \notin {"off", "shmat", "rmid"} \/ child[r] # "off"
  BY DEF Attached, Users
<1>2. pc[r] \in PC /\ pc[r] \notin {"zero", "sem_w", "sem_r"}
  BY <1>1 DEF BaseInv, Types, SettingUp, Users
<1>3. r \in Past(g)
  BY <1>1, <1>2 DEF Past, Users, PC
<1> QED BY <1>3

(* With semaphores, the runs that share a segment take turns at its array. *)
THEOREM TakeTurns == Spec => []OneAtATime
<1>1. UseInv => OneAtATime
  BY BeyondSetup DEF UseInv, TokenInv, Balanced, OneAtATime
<1> QED BY <1>1, UseInvariance, PTL

-----------------------------------------------------------------------------
(* A child that waits is owed a post: by a parent that has yet to write,   *)
(* or it has been made.  If a segment is set up anew a post may be lost,   *)
(* and there are fewer of them than children, never more.                  *)
Owed(g) == Cardinality(ToWrite(g)) + sem_r[g]

DebtInv ==
  program = "sem" /\ ~failed =>
    \A g \in Segment :
      /\ Owed(g) <= Cardinality(Waiting(g))
      /\ g \notin disturbed => Owed(g) = Cardinality(Waiting(g))

(* At first nobody waits and nobody is to write.                           *)
LEMMA InitDebt == Init => DebtInv
<1> SUFFICES ASSUME Init, NEW g \in Segment
             PROVE  Owed(g) = Cardinality(Waiting(g)) /\ Owed(g) = 0
  BY DEF DebtInv
<1>1. ToWrite(g) = {} /\ Waiting(g) = {} /\ sem_r[g] = 0
  BY DEF Init, ToWrite, Waiting, Users
<1> QED BY <1>1, FS_EmptySet DEF Owed

(* A step makes no debt that is not owed; and all are kept if no run sets  *)
(* the segment up.                                                         *)
LEMMA DebtMoves ==
  ASSUME BaseInv, FiniteInv, FiniteInv', NEW r \in Run, Does(r), UNCHANGED program,
         program = "sem", ~failed', NEW g \in Segment, ~Wiped(g)
  PROVE  /\ Cardinality(Waiting(g)) \in Nat /\ Owed(g) \in Nat /\ Owed(g)' \in Nat
         /\ \/ \E d \in {-1, 0, 1} :
                 /\ Cardinality(Waiting(g)') = Cardinality(Waiting(g)) + d
                 /\ Owed(g)' = Owed(g) + d
            \/ /\ Cardinality(Waiting(g)') = Cardinality(Waiting(g))
               /\ Owed(g)' <= Owed(g) /\ SettingUp(g)
               /\ sem_r[g] = 0 => Owed(g)' = Owed(g)
<1>1. Shape(r) /\ RunInv(r)
  BY ShapeOf DEF BaseInv
<1>2. /\ sem_w[g] \in Nat /\ sem_r[g] \in Nat /\ sem_w'[g] \in Nat /\ sem_r'[g] \in Nat
      /\ sem_w \in [Segment -> Nat] /\ sem_r \in [Segment -> Nat]
  BY <1>1 DEF BaseInv, Types, TypeOK, Shape, SegTypes
<1>3. PICK m, n \in Nat :
        /\ Cardinality(ToWrite(g)) = m + One(r \in ToWrite(g))
        /\ Cardinality(ToWrite(g)') = m + One(r \in ToWrite(g)')
        /\ Cardinality(Waiting(g)) = n + One(r \in Waiting(g))
        /\ Cardinality(Waiting(g)') = n + One(r \in Waiting(g)')
  BY <1>1, Counted
<1>4. /\ Owed(g) = (m + One(r \in ToWrite(g))) + sem_r[g]
      /\ Owed(g)' = (m + One(r \in ToWrite(g)')) + sem_r'[g]
  BY <1>3 DEF Owed
<1>5. /\ One(r \in ToWrite(g)) \in Nat /\ One(r \in ToWrite(g)') \in Nat
      /\ One(r \in Waiting(g)) \in Nat /\ One(r \in Waiting(g)') \in Nat
  BY DEF One
<1>6. Cardinality(Waiting(g)) \in Nat /\ Owed(g) \in Nat /\ Owed(g)' \in Nat
  BY <1>2, <1>3, <1>4, <1>5
<1>7. ASSUME sem_r'[g] = sem_r[g],
             r \in ToWrite(g)' <=> r \in ToWrite(g),
             r \in Waiting(g)' <=> r \in Waiting(g)
      PROVE  /\ Cardinality(Waiting(g)') = Cardinality(Waiting(g)) + 0
             /\ Owed(g)' = Owed(g) + 0
  BY <1>2, <1>3, <1>4, <1>5, <1>7
<1>8. CASE g # shm_id[r]
  <2>1. /\ sem_r'[g] = sem_r[g] /\ r \notin Users(g)
        /\ r \notin Waiting(g)' /\ r \notin ToWrite(g)'
    BY <1>8, Elsewhere DEF Keeps
  <2>2. r \notin Waiting(g) /\ r \notin ToWrite(g)
    BY <2>1 DEF Waiting, ToWrite
  <2> QED BY <1>6, <1>7, <2>1, <2>2
<1>9. CASE g = shm_id[r]
  <2>1. Counts(r, g)
    BY <1>9, CountsHere
  <2>2. ~Shmget(r)
    BY <1>9, Points, ProcessSyncAssumption DEF BaseInv, RunInv
  <2>3. ASSUME shm_id'[r] = g
        PROVE  Counts(r, g)'
    BY <2>3, CountsHere
  <2>4. CASE \/ Shmat(r) \/ ZeroData(r) \/ WaitW(r) \/ WriteCell(r) \/ ReadCell(r)
             \/ PostW(r) \/ Stir(r)
    <3>1. shm_id'[r] = g /\ sem_r' = sem_r
      BY <1>9, <2>4, Points DEF MainGoes, ChildGoes, segvars
    <3>2. /\ r \in ToWrite(g)' <=> r \in ToWrite(g)
          /\ r \in Waiting(g)' <=> r \in Waiting(g)
      BY <1>1, <2>1, <2>3, <2>4, <3>1, Points DEF MainGoes, ChildGoes, Counts, RunInv
    <3> QED BY <1>6, <1>7, <3>1, <3>2
  <2>5. CASE InitSems(r)
    <3>1. CASE MainGoes(r, "sem_w", "sem_r") /\ UNCHANGED sem_r
      <4>1. /\ r \in ToWrite(g)' <=> r \in ToWrite(g)
            /\ r \in Waiting(g)' <=> r \in Waiting(g)
        BY <1>9, <2>1, <2>3, <3>1 DEF MainGoes, Counts
      <4> QED BY <1>6, <1>7, <3>1, <4>1
    <3>2. CASE /\ MainGoes(r, "sem_r", "fork")
               /\ sem_r' = [sem_r EXCEPT ![shm_id[r]] = 0]
      <4>1. /\ r \in ToWrite(g)' <=> r \in ToWrite(g)
            /\ r \in Waiting(g)' <=> r \in Waiting(g)
        BY <1>9, <2>1, <2>3, <3>2 DEF MainGoes, Counts
      <4>2. sem_r'[g] = 0 /\ SettingUp(g)
        BY <1>2, <1>9, <3>2 DEF MainGoes, SettingUp, Users
      <4> QED BY <1>2, <1>3, <1>4, <1>5, <1>6, <4>1, <4>2
    <3> QED BY <2>5, <3>1, <3>2, Points
  <2>6. CASE Fork(r)
    <3>1. shm_id'[r] = g /\ sem_r' = sem_r
      BY <1>9, <2>6, Points DEF segvars
    <3>2. /\ r \in ToWrite(g)' /\ r \notin ToWrite(g)
          /\ r \in Waiting(g)' /\ r \notin Waiting(g)
      BY <2>1, <2>3, <2>6, <3>1, Points DEF Counts
    <3>3. /\ Cardinality(Waiting(g)') = Cardinality(Waiting(g)) + 1
          /\ Owed(g)' = Owed(g) + 1
      BY <1>2, <1>3, <1>4, <3>1, <3>2 DEF One
    <3> QED BY <1>6, <3>3
  <2>7. CASE PostR(r)
    <3>1. /\ MainGoes(r, "post_r", "shmdt") /\ shm_id'[r] = g
          /\ sem_r'[g] = sem_r[g] + 1
      BY <1>2, <1>9, <2>7, Points DEF MainGoes
    <3>2. /\ r \notin ToWrite(g)' /\ r \in ToWrite(g)
          /\ r \in Waiting(g)' <=> r \in Waiting(g)
      BY <2>1, <2>3, <3>1 DEF MainGoes, Counts
    <3>3. /\ Cardinality(Waiting(g)') = Cardinality(Waiting(g)) + 0
          /\ Owed(g)' = Owed(g) + 0
      BY <1>2, <1>3, <1>4, <1>5, <3>1, <3>2 DEF One
    <3> QED BY <1>6, <3>3
  <2>8. CASE WaitR(r)
    <3>1. /\ ChildGoes(r, "wait_r", "read") /\ shm_id'[r] = g
          /\ sem_r'[g] = sem_r[g] - 1
      BY <1>2, <1>9, <2>8, Points DEF ChildGoes
    <3>2. /\ r \notin Waiting(g)' /\ r \in Waiting(g)
          /\ r \in ToWrite(g)' <=> r \in ToWrite(g)
      BY <2>1, <2>3, <3>1 DEF ChildGoes, Counts
    <3>3. /\ Cardinality(Waiting(g)') = Cardinality(Waiting(g)) + (-1)
          /\ Owed(g)' = Owed(g) + (-1)
      BY <1>2, <1>3, <1>4, <1>5, <3>1, <3>2 DEF One
    <3> QED BY <1>6, <3>3
  <2>9. ~Wake(r) /\ ~Fails(r) /\ ~Kill(r)
    BY <1>1, Points DEF ChildGoes, RunInv
  <2>10. CASE Shmdt(r) \/ Rmid(r) \/ ChildEnds(r)
    <3>1. Parts(r)
      BY <2>10, Points
    <3>2. Keeps(g) /\ shm_id'[r] = IF Over(r)' THEN NoSegment ELSE g
      BY <1>9, <3>1 DEF Parts
    <3>3. Counts(r, g)'
      BY <2>3, <3>2, CountsGone
    <3>4. /\ r \in ToWrite(g)' <=> r \in ToWrite(g)
          /\ r \in Waiting(g)' <=> r \in Waiting(g)
      BY <2>1, <2>10, <3>3, Points DEF Counts
    <3> QED BY <1>6, <1>7, <3>2, <3>4 DEF Keeps
  <2> QED BY <2>2, <2>4, <2>5, <2>6, <2>7, <2>8, <2>9, <2>10
          DEF Does, Main, Parent, Child
<1> QED BY <1>8, <1>9

(* The debts are kept; they can only be fewer in a segment set up anew.    *)
LEMMA NextDebt ==
  ASSUME UseInv, DebtInv, [Next]_vars
  PROVE  DebtInv'
<1>1. CASE UNCHANGED vars
  BY <1>1 DEF vars, segvars, notes, DebtInv, Owed, ToWrite, Waiting, Users
<1>2. CASE Next
  <2>1. PICK r \in Run : Does(r) /\ UNCHANGED program /\ Note
    BY <1>2, NextDoes
  <2>2. SUFFICES ASSUME program = "sem", ~failed', NEW g \in Segment
                 PROVE  /\ Owed(g)' <= Cardinality(Waiting(g)')
                        /\ g \notin disturbed' => Owed(g)' = Cardinality(Waiting(g)')
    BY <2>1 DEF DebtInv
  <2>3. /\ Owed(g) <= Cardinality(Waiting(g))
        /\ g \notin disturbed => Owed(g) = Cardinality(Waiting(g))
    BY <2>1, <2>2, FailedStays DEF DebtInv
  <2>4. /\ BaseInv /\ FiniteInv /\ FiniteInv' /\ NotedInv
    BY NextUse DEF UseInv
  <2>5. Shape(r) /\ sem_r[g] \in Nat /\ sem_r'[g] \in Nat
    BY <2>1, <2>4, ShapeOf DEF BaseInv, Types, TypeOK, Shape, SegTypes
  <2>6. ASSUME ~Attached(g)'
        PROVE  Owed(g)' = sem_r'[g] /\ Cardinality(Waiting(g)') = 0
    <3>1. ToWrite(g)' = {} /\ Waiting(g)' = {}
      BY <2>6 DEF Attached, ToWrite, Waiting, Users
    <3>2. Cardinality(ToWrite(g)') = 0 /\ Cardinality(Waiting(g)') = 0
      BY <3>1, FS_EmptySet
    <3> QED BY <2>5, <3>2 DEF Owed
  <2>7. CASE Wiped(g)
    BY <2>6, <2>7 DEF Wiped, Exists
  <2>8. CASE ~Wiped(g)
    <3>1. g \notin disturbed' /\ Attached(g)' =>
            g \notin disturbed /\ (~SettingUp(g) \/ sem_r[g] = 0)
      <4>1. g \notin disturbed' /\ Attached(g)' => g \notin disturbed /\ ~Disturbance(g)
        BY <2>1, <2>4, InOrder
      <4> QED BY <2>5, <4>1 DEF Disturbance
    <3>2. /\ Cardinality(Waiting(g)) \in Nat /\ Owed(g) \in Nat /\ Owed(g)' \in Nat
          /\ \/ \E d \in {-1, 0, 1} :
                  /\ Cardinality(Waiting(g)') = Cardinality(Waiting(g)) + d
                  /\ Owed(g)' = Owed(g) + d
             \/ /\ Cardinality(Waiting(g)') = Cardinality(Waiting(g))
                /\ Owed(g)' <= Owed(g) /\ SettingUp(g)
                /\ sem_r[g] = 0 => Owed(g)' = Owed(g)
      BY <2>1, <2>2, <2>4, <2>8, DebtMoves
    <3>3. Owed(g)' <= Cardinality(Waiting(g)')
      BY <2>3, <3>2
    <3>4. CASE ~Attached(g)'
      BY <2>5, <2>6, <3>3, <3>4
    <3>5. CASE Attached(g)'
      BY <2>3, <3>1, <3>2, <3>3, <3>5
    <3> QED BY <3>4, <3>5
  <2> QED BY <2>7, <2>8
<1> QED BY <1>1, <1>2

-----------------------------------------------------------------------------
(* A process that its semaphore does not know of waits for it, at a        *)
(* segment that was set up under it.                                       *)
Waits(r, w) == w = IF w = "wait_w" THEN pc[r] ELSE child[r]
AsleepInv ==
  \A r \in Run, w \in {"wait_w", "wait_r"} :
    <<r, w>> \in asleep => Waits(r, w) /\ shm_id[r] \in disturbed

(* Who waits at a segment.                                                 *)
LEMMA WaitersWait ==
  ASSUME NEW g, NEW r \in Run, NEW w
  PROVE  \A v : <<r, w>> \in Waiters(g, v) <=> w = v /\ shm_id[r] = g /\ Waits(r, w)
BY DEF Waiters, Users, Waits

(* At first nobody waits.                                                  *)
LEMMA InitAsleep == Init => AsleepInv
BY DEF Init, AsleepInv

(* A semaphore forgets its waiters when it is initialised, or one of them  *)
(* when another stirs.                                                     *)
LEMMA Forgotten ==
  ASSUME NEW r \in Run, Does(r), NEW s \in asleep', s \notin asleep
  PROVE  /\ InitSems(r) \/ \E w \in {"wait_w", "wait_r"} : Stir(r) /\ <<r, w>> \in asleep
         /\ \E w \in {"wait_w", "wait_r"} : s \in Waiters(shm_id[r], w)
<1>1. CASE InitSems(r)
  BY <1>1 DEF InitSems, sem_init
<1>2. CASE Stir(r)
  BY <1>2 DEF Stir
<1>3. ~Main(r) \/ InitSems(r)
  BY DEF Main, Shmat, ZeroData, Fork, segvars
<1>4. ~Shmget(r)
  BY DEF Shmget, segvars
<1>5. ~Fails(r) /\ ~Kill(r)
  BY DEF Fails, Kill, Leave
<1>6. ~Parent(r)
  BY DEF Parent, WaitW, WriteCell, PostR, Shmdt, Rmid, Leave, sem_wait, sem_post
<1>7. ~Child(r)
  BY DEF Child, Wake, WaitR, ReadCell, PostW, ChildEnds, Leave, sem_wait, sem_post, segvars
<1> QED BY <1>1, <1>2, <1>3, <1>4, <1>5, <1>6, <1>7 DEF Does

(* One that it has forgotten goes on waiting, or it is awake.              *)
LEMMA SleepsOn ==
  ASSUME BaseInv, NEW r \in Run, Does(r), UNCHANGED program,
         NEW w \in {"wait_w", "wait_r"}, <<r, w>> \in asleep, <<r, w>> \in asleep', Waits(r, w)
  PROVE  Waits(r, w)' /\ shm_id'[r] = shm_id[r]
<1>1. Types /\ RunInv(r)
  BY DEF BaseInv
<1>2. ASSUME Leave(r)
      PROVE  Waits(r, w)' /\ shm_id'[r] = shm_id[r]
  <2>1. shm_id' = [shm_id EXCEPT ![r] = IF Over(r)' THEN NoSegment ELSE shm_id[r]]
    BY <1>1, <1>2, LeaveFacts
  <2>2. <<r, w>> \in Waiters(shm_id[r], w)'
    BY <1>1, <1>2, LeaveFacts
  <2>3. Waits(r, w)'
    BY <2>2 DEF Waiters, Waits
  <2>4. ~Over(r)'
    BY <2>3 DEF Over, Waits
  <2>5. shm_id \in [Run -> Segment \cup {NoSegment}]
    BY <1>1, TypesAre DEF RunTypes
  <2> QED BY <2>1, <2>3, <2>4, <2>5
<1>3. CASE Shmdt(r) \/ Rmid(r) \/ ChildEnds(r) \/ Fails(r) \/ Kill(r)
  BY <1>2, <1>3 DEF Shmdt, Rmid, ChildEnds, Fails, Kill
<1>4. CASE Shmget(r) \/ Shmat(r) \/ ZeroData(r) \/ InitSems(r) \/ Fork(r)
  <2>1. pc[r] \in Before \cup {"off"} /\ child[r] = "off"
    BY <1>1, <1>4, Points DEF MainGoes, RunInv, Before
  <2> QED BY <2>1 DEF Waits, Before
<1>5. CASE WaitW(r)
  <2>1. w = "wait_r" /\ MainGoes(r, "wait_w", "write")
    BY <1>5, Points DEF WaitW, sem_wait
  <2> QED BY <2>1 DEF Waits, MainGoes
<1>6. CASE WaitR(r)
  <2>1. w = "wait_w" /\ ChildGoes(r, "wait_r", "read")
    BY <1>6, Points DEF WaitR, sem_wait
  <2> QED BY <2>1 DEF Waits, ChildGoes
<1>7. CASE WriteCell(r) \/ PostR(r)
  BY <1>7, Points DEF Waits, MainGoes
<1>8. CASE Wake(r) \/ ReadCell(r) \/ PostW(r)
  BY <1>8, Points DEF Waits, ChildGoes
<1>9. CASE Stir(r)
  BY <1>9, Points DEF Waits
<1> QED BY <1>3, <1>4, <1>5, <1>6, <1>7, <1>8, <1>9 DEF Does, Main, Parent, Child

(* A step forgets waiters at a disturbed segment only, and the segment     *)
(* stays disturbed while they wait.                                        *)
LEMMA NextAsleep ==
  ASSUME UseInv, AsleepInv, [Next]_vars
  PROVE  AsleepInv'
<1>1. CASE UNCHANGED vars
  BY <1>1 DEF vars, segvars, notes, AsleepInv, Waits
<1>2. CASE Next
  <2>1. PICK r \in Run : Does(r) /\ UNCHANGED program /\ Note
    BY <1>2, NextDoes
  <2>2. BaseInv /\ NotedInv /\ Shape(r) /\ RunInv(r)
    BY <2>1, ShapeOf DEF UseInv, BaseInv
  <2>3. SUFFICES ASSUME NEW q \in Run, NEW w \in {"wait_w", "wait_r"}, <<q, w>> \in asleep'
                 PROVE  Waits(q, w)' /\ shm_id'[q] \in disturbed'
    BY DEF AsleepInv
  <2>4. SUFFICES /\ Waits(q, w)' /\ shm_id'[q] = shm_id[q] /\ shm_id[q] \in disturbed
    <3>1. ASSUME Waits(q, w)', shm_id'[q] = shm_id[q], shm_id[q] \in disturbed
          PROVE  shm_id'[q] \in disturbed'
      <4>1. PICK g \in Segment : g = shm_id[q]
        BY <2>2, <3>1 DEF BaseInv, Types, TypeOK
      <4>2. Attached(g)'
        BY <3>1, <4>1 DEF Attached, Users, Waits
      <4> QED BY <2>1, <3>1, <4>1, <4>2 DEF Note
    <3> QED BY <3>1
  <2>5. ASSUME q # r
        PROVE  Waits(q, w)' <=> Waits(q, w)
    BY <2>2, <2>5 DEF Shape, Untouched, Waits
  <2>6. CASE <<q, w>> \in asleep
    <3>1. Waits(q, w) /\ shm_id[q] \in disturbed
      BY <2>6 DEF AsleepInv
    <3>2. CASE q # r
      BY <2>2, <2>5, <3>1, <3>2 DEF Shape, Untouched
    <3>3. CASE q = r
      BY <2>1, <2>2, <2>3, <2>6, <3>1, <3>3, SleepsOn
    <3> QED BY <3>2, <3>3
  <2>7. CASE <<q, w>> \notin asleep
    <3>1. Waits(q, w) /\ shm_id[q] = shm_id[r] /\ <<q, w>> \in Waiters(shm_id[r], w)
      <4>1. \E v \in {"wait_w", "wait_r"} : <<q, w>> \in Waiters(shm_id[r], v)
        BY <2>1, <2>3, <2>7, Forgotten
      <4> QED BY <4>1, WaitersWait
    <3>2. CASE InitSems(r)
      <4>1. /\ pc[r] \in {"sem_w", "sem_r"} /\ child[r] = "off"
            /\ shm_id[r] \in Segment
        BY <2>1, <2>2, <3>2, Points DEF MainGoes, RunInv, Before, BaseInv, Types, TypeOK
      <4>2. Disturbance(shm_id[r])
        BY <3>1, <4>1 DEF Disturbance, SettingUp, Users
      <4>3. q # r
        BY <3>1, <4>1 DEF Waits
      <4> QED BY <2>2, <2>5, <3>1, <4>1, <4>2, <4>3 DEF NotedInv, Shape, Untouched
    <3>3. ASSUME NEW v \in {"wait_w", "wait_r"}, Stir(r), <<r, v>> \in asleep
          PROVE  Waits(q, w)' /\ shm_id'[q] = shm_id[q] /\ shm_id[q] \in disturbed
      <4>1. shm_id[r] \in disturbed
        BY <3>3 DEF AsleepInv
      <4> QED BY <3>1, <3>3, <4>1 DEF Stir, Waits
    <3> QED BY <2>1, <2>3, <2>7, <3>2, <3>3, Forgotten
  <2> QED BY <2>6, <2>7
<1> QED BY <1>1, <1>2

(* Unless a run initialises the semaphores while others wait, write or     *)
(* read, nobody is forgotten by a semaphore, a child that waits is owed a  *)
(* post, and while a parent waits somebody has the turn, or it is the      *)
(* parent's.                                                               *)
THEOREM NoLostWakeup == Spec => []NobodyForgotten
<1>1. UseInv /\ DebtInv /\ AsleepInv => NobodyForgotten
  <2> SUFFICES ASSUME UseInv, DebtInv, AsleepInv, program = "sem", ~failed,
                      NEW g \in Segment \ disturbed
               PROVE  /\ \A s \in asleep : s[1] \notin Users(g)
                      /\ Cardinality(Waiting(g)) = Cardinality(ToWrite(g)) + sem_r[g]
                      /\ ToWrite(g) # {} /\ ~SettingUp(g) => Tokens(g) = 1
    BY DEF NobodyForgotten, Waiting, ToWrite
  <2>1. Cardinality(Waiting(g)) = Cardinality(ToWrite(g)) + sem_r[g]
    BY DEF DebtInv, Owed
  <2>2. ToWrite(g) # {} => Past(g) # {}
    BY DEF ToWrite, Past
  <2>3. asleep \in SUBSET (Run \X {"wait_w", "wait_r"})
    BY TypesAre DEF UseInv, BaseInv, SegTypes
  <2>4. ASSUME NEW s \in asleep
        PROVE  s[1] \notin Users(g)
    <3>1. PICK r \in Run, w \in {"wait_w", "wait_r"} : s = <<r, w>>
      BY <2>3, <2>4
    <3>2. shm_id[r] \in disturbed
      BY <2>4, <3>1 DEF AsleepInv
    <3> QED BY <3>1, <3>2 DEF Users
  <2> QED BY <2>1, <2>2, <2>4 DEF UseInv, TokenInv, Balanced
<1>2. Init => DebtInv /\ AsleepInv
  BY InitDebt, InitAsleep
<1> QED BY <1>1, <1>2, NextDebt, NextAsleep, UseInvariance, PTL DEF Spec

-----------------------------------------------------------------------------
(* What a parent has written is there as long as it, or its child, counts  *)
(* on it; what a child has read is all that it should have.                *)
RunData(r, g) ==
  /\ \/ pc[r] \in {"write", "post_r"}
     \/ program = "plain" /\ child[r] \in {"sleep", "read"}
     => 0 .. i[r] - 1 \subseteq data[g]
  /\ program = "sem" /\ child[r] = "read" => data[g] = Cell
  /\ child[r] = "read" => seen[r].written = 0 .. seen[r].cells - 1
  /\ child[r] \in {"post_w", "done"} => seen[r].written = Cell

(* So it is at every segment in order; and sem_r is up only for data that  *)
(* is complete.                                                            *)
DataInv ==
  \A g \in Segment \ disturbed :
    /\ \A r \in Users(g) : RunData(r, g)
    /\ program = "sem" /\ Attached(g) /\ sem_r[g] > 0 => data[g] = Cell

(* A run that the step is not of keeps its data unless the array loses.    *)
LEMMA OthersData ==
  ASSUME NEW r \in Run, NEW g \in Segment, Untouched(r), RunData(r, g),
         UNCHANGED program, data[g] \subseteq data'[g], data'[g] \subseteq Cell
  PROVE  RunData(r, g)'
BY DEF RunData, Untouched

(* One that neither writes nor reads has none in the array to keep.        *)
LEMMA IdleData ==
  ASSUME NEW r \in Run, NEW g \in Segment, Untouched(r), RunData(r, g),
         UNCHANGED program, r \in Users(g), Writing(g) \cup Reading(g) = {}
  PROVE  RunData(r, g)'
<1>1. /\ pc[r] \notin {"write", "post_r"}
      /\ child[r] \notin {"sleep", "read", "post_w"}
  BY DEF Writing, Reading
<1> QED BY <1>1 DEF RunData, Untouched

(* A run that has not begun to write, and has no child, has none at all.   *)
LEMMA NoData ==
  ASSUME NEW r \in Run, NEW g \in Segment,
         pc'[r] \notin {"write", "post_r"}, child'[r] = "off"
  PROVE  RunData(r, g)'
BY DEF RunData

(* The array of a segment in order is not made smaller under anybody.      *)
LEMMA ArrayGrows ==
  ASSUME BaseInv, NEW r \in Run, Does(r), UNCHANGED program, ~ZeroData(r),
         NEW g \in Segment, ~Wiped(g)
  PROVE  data[g] \subseteq data'[g]
<1>1. data \in [Segment -> SUBSET Cell]
  BY DEF BaseInv, Types, TypeOK
<1>2. CASE Shmget(r) \/ Shmat(r) \/ InitSems(r) \/ Fork(r)
  BY <1>2, Points DEF segvars
<1>3. CASE \/ WaitW(r) \/ PostR(r) \/ Wake(r) \/ WaitR(r) \/ ReadCell(r) \/ PostW(r)
           \/ Stir(r)
  BY <1>3, Points DEF segvars
<1>4. CASE WriteCell(r)
  BY <1>1, <1>4 DEF WriteCell
<1>5. CASE Shmdt(r) \/ Rmid(r) \/ ChildEnds(r) \/ Fails(r) \/ Kill(r)
  BY <1>5, Points DEF Parts, Keeps
<1> QED BY <1>2, <1>3, <1>4, <1>5 DEF Does, Main, Parent, Child

(* Only shmat makes a segment used.                                        *)
LEMMA AttachedBefore ==
  ASSUME BaseInv, NEW r \in Run, Does(r), UNCHANGED program, ~Shmat(r),
         NEW g \in Segment, Attached(g)'
  PROVE  Attached(g)
<1>1. CASE g # shm_id[r]
  BY <1>1, Elsewhere
<1>2. CASE g = shm_id[r]
  <2>1. Shape(r) /\ RunInv(r)
    BY ShapeOf DEF BaseInv
  <2>2. PICK q \in Run : /\ shm_id'[q] = g
                         /\ pc'[q] \notin {"off", "shmat", "rmid"} \/ child'[q] # "off"
    BY DEF Attached, Users
  <2>3. CASE q # r
    BY <2>1, <2>2, <2>3 DEF Shape, Untouched, Attached, Users
  <2>4. CASE q = r
    <3>1. pc[r] \notin {"off", "shmat", "rmid"} \/ child[r] # "off"
      <4>1. ~Shmget(r)
        BY <1>2, Points, ProcessSyncAssumption DEF RunInv, BaseInv
      <4>2. CASE ZeroData(r) \/ InitSems(r) \/ Fork(r)
        BY <4>2, Points DEF MainGoes
      <4>3. CASE WaitW(r) \/ WriteCell(r) \/ PostR(r)
        BY <4>3, Points DEF MainGoes
      <4>4. CASE Wake(r) \/ WaitR(r) \/ ReadCell(r) \/ PostW(r)
        BY <4>4, Points DEF ChildGoes
      <4>5. CASE Shmdt(r) \/ Rmid(r) \/ ChildEnds(r) \/ Fails(r) \/ Kill(r)
        BY <2>2, <2>4, <4>5, Points
      <4>6. CASE Stir(r)
        BY <2>2, <2>4, <4>6, Points
      <4> QED BY <4>1, <4>2, <4>3, <4>4, <4>5, <4>6 DEF Does, Main, Parent, Child
    <3> QED BY <1>2, <3>1 DEF Attached, Users
  <2> QED BY <2>3, <2>4
<1> QED BY <1>1, <1>2

(* The step of run r at its own segment, for itself.                       *)
LEMMA OwnData ==
  ASSUME BaseInv, NEW r \in Run, Does(r), UNCHANGED program,
         NEW g \in Segment, g = shm_id[r], shm_id'[r] = g,
         RunData(r, g), ~Disturbance(g), ~Wiped(g),
         program = "sem" /\ Attached(g) /\ sem_r[g] > 0 => data[g] = Cell
  PROVE  RunData(r, g)'
<1>1. /\ Shape(r) /\ RunInv(r) /\ RunInv(r)'
  BY ShapeOf, RunKept DEF BaseInv
<1>2. /\ data \in [Segment -> SUBSET Cell] /\ i \in [Run -> 0 .. DataSize]
      /\ seen \in [Run -> Seen] /\ program \in {"plain", "sem"} /\ DataSize \in Nat \ {0}
      /\ data' \in [Segment -> SUBSET Cell] /\ NoSegment \notin Segment
  BY <1>1, TypesAre, ProcessSyncAssumption DEF BaseInv, RunTypes, SegTypes, Shape
<1>3. ~Shmget(r)
  BY <1>1, <1>2, Points DEF RunInv
<1>4. CASE Shmat(r) \/ ZeroData(r) \/ InitSems(r)
  <2>1. pc'[r] \notin {"write", "post_r"} /\ child'[r] = child[r] /\ pc[r] \in Before
    BY <1>4, Points DEF MainGoes, Before
  <2>2. child[r] = "off"
    BY <1>1, <2>1 DEF RunInv
  <2> QED BY <2>1, <2>2, NoData
<1>5. CASE Fork(r)
  <2>1. i'[r] = 0
    BY <1>1, <1>5 DEF Fork, Goto, RunInv, Before
  <2>2. child'[r] \in {"wait_r", "sleep"}
    BY <1>2, <1>5, Points
  <2>3. 0 .. i'[r] - 1 = {}
    BY <2>1
  <2> QED BY <2>2, <2>3 DEF RunData
<1>6. CASE WaitW(r)
  <2>1. i'[r] = 0 /\ program = "sem" /\ UNCHANGED <<data, child, seen>>
    BY <1>1, <1>2, <1>6 DEF WaitW, Goto, RunInv
  <2>2. 0 .. i'[r] - 1 = {}
    BY <2>1
  <2> QED BY <2>1, <2>2 DEF RunData
<1>7. CASE WriteCell(r)
  <2>1. /\ pc[r] = "write" /\ i'[r] = i[r] + 1 /\ UNCHANGED <<child, seen>>
        /\ data'[g] = data[g] \cup {i[r]} /\ i[r] \in 0 .. DataSize
    BY <1>2, <1>7 DEF WriteCell, Goto
  <2>2. 0 .. i[r] - 1 \subseteq data[g]
    BY <2>1 DEF RunData
  <2>3. 0 .. i'[r] - 1 \subseteq data'[g]
    BY <2>1, <2>2
  <2>4. data[g] = Cell => data'[g] = Cell
    BY <1>2, <2>1
  <2> QED BY <2>1, <2>3, <2>4 DEF RunData
<1>8. CASE PostR(r)
  <2>1. pc'[r] = "shmdt" /\ program = "sem" /\ UNCHANGED <<data, child, seen>>
    BY <1>1, <1>2, <1>8, Points DEF PostR, Goto, RunInv, MainGoes
  <2> QED BY <2>1 DEF RunData
<1>9. CASE Wake(r)
  <2>1. /\ child[r] = "sleep" /\ child'[r] = "read" /\ program = "plain"
        /\ UNCHANGED <<data, pc, i, seen>>
    BY <1>1, <1>2, <1>9, Points DEF Wake, RunInv, ChildGoes, segvars
  <2>2. seen'[r].written = {} /\ seen'[r].cells = 0
    BY <1>1, <2>1, NothingSeen DEF RunInv
  <2>3. 0 .. seen'[r].cells - 1 = {}
    BY <2>2
  <2> QED BY <2>1, <2>2, <2>3 DEF RunData
<1>10. CASE WaitR(r)
  <2>1. /\ child[r] = "wait_r" /\ child'[r] = "read" /\ program = "sem"
        /\ sem_r[g] > 0 /\ UNCHANGED <<data, pc, i, seen>>
    BY <1>1, <1>2, <1>10, Points DEF WaitR, RunInv, ChildGoes
  <2>2. seen'[r].written = {} /\ seen'[r].cells = 0
    BY <1>1, <2>1, NothingSeen DEF RunInv
  <2>3. 0 .. seen'[r].cells - 1 = {}
    BY <2>2
  <2>4. data[g] = Cell
    BY <2>1 DEF Attached, Users
  <2> QED BY <2>1, <2>2, <2>3, <2>4 DEF RunData
<1>11. CASE ReadCell(r)
  <2> DEFINE c == seen[r].cells
             w == seen[r].written \cup (data[g] \cap {c})
  <2>1. /\ child[r] = "read" /\ UNCHANGED <<data, pc, i>>
        /\ seen' = [seen EXCEPT ![r] = [cells |-> c + 1, written |-> w]]
        /\ \/ c < DataSize - 1 /\ child' = child
           \/ c = DataSize - 1 /\ child'[r] \in {"post_w", "done"}
    <3>1. child \in [Run -> ChildPC]
      BY TypesAre DEF BaseInv, RunTypes
    <3> QED BY <1>11, <3>1 DEF ReadCell, ChildGoto, segvars
  <2>2. c \in 0 .. DataSize /\ i[r] \in 0 .. DataSize
    BY <1>2 DEF Seen
  <2>3. c \in data[g]
    <3>1. c \in Cell
      BY <2>1, <2>2, <1>2 DEF Cell
    <3>2. CASE program = "sem"
      BY <2>1, <3>1, <3>2 DEF RunData
    <3>3. CASE program = "plain"
      <4>1. ~(i[r] < DataSize)
        BY <2>1, <3>3 DEF Disturbance, Users
      <4>2. i[r] = DataSize
        BY <1>2, <2>2, <4>1
      <4> QED BY <2>1, <3>1, <3>3, <4>2 DEF RunData, Cell
    <3> QED BY <1>2, <3>2, <3>3
  <2>4. w = 0 .. c
    <3>1. seen[r].written = 0 .. c - 1
      BY <2>1 DEF RunData
    <3>2. w = (0 .. c - 1) \cup {c}
      BY <2>3, <3>1
    <3>3. (0 .. c - 1) \cup {c} = 0 .. c
      BY <2>2
    <3> QED BY <3>2, <3>3
  <2>5. seen'[r] = [cells |-> c + 1, written |-> w]
    BY <1>2, <2>1
  <2>6. seen'[r].cells = c + 1 /\ seen'[r].written = w
    BY <2>5
  <2> HIDE DEF c, w
  <2>7. CASE c < DataSize - 1 /\ child' = child
    <3>1. c = (c + 1) - 1
      BY <2>2
    <3> QED BY <2>1, <2>4, <2>6, <2>7, <3>1 DEF RunData
  <2>8. CASE c = DataSize - 1 /\ child'[r] \in {"post_w", "done"}
    <3>1. w = Cell
      BY <2>4, <2>8 DEF Cell
    <3> QED BY <2>1, <2>6, <2>8, <3>1 DEF RunData
  <2> QED BY <2>1, <2>7, <2>8
<1>12. CASE PostW(r)
  <2>1. child[r] = "post_w" /\ child'[r] = "done" /\ UNCHANGED <<data, pc, i, seen>>
    BY <1>12, Points DEF PostW, ChildGoes
  <2> QED BY <2>1 DEF RunData
<1>13. CASE Shmdt(r) \/ Rmid(r) \/ ChildEnds(r) \/ Fails(r) \/ Kill(r)
  <2>1. Parts(r) /\ pc'[r] \in {"rmid", "off", pc[r]} /\ child'[r] \in {"off", child[r]}
    BY <1>13, Points
  <2>2. ~Over(r)' /\ Keeps(g)
    BY <1>2, <2>1 DEF Parts
  <2>3. i'[r] = i[r] /\ seen'[r] = seen[r] /\ data'[g] = data[g]
    BY <2>1, <2>2 DEF Parts, Keeps
  <2> QED BY <2>1, <2>3 DEF RunData
<1>14. CASE Stir(r)
  BY <1>14, Points DEF RunData
<1> QED BY <1>3, <1>4, <1>5, <1>6, <1>7, <1>8, <1>9, <1>10, <1>11, <1>12, <1>13,
           <1>14
        DEF Does, Main, Parent, Child

(* At first no run has a segment.                                          *)
LEMMA InitData == Init => DataInv
BY ProcessSyncAssumption DEF Init, DataInv, Users

(* A step keeps the data: only zeroing takes cells away, and in a segment  *)
(* in order that is while nobody works on it.                              *)
LEMMA NextData ==
  ASSUME UseInv, DataInv, [Next]_vars
  PROVE  DataInv'
<1>1. CASE UNCHANGED vars
  BY <1>1 DEF vars, segvars, notes, DataInv, RunData, Attached, Users
<1>2. CASE Next
  <2>1. PICK r \in Run : Does(r) /\ UNCHANGED program /\ Note
    BY <1>2, NextDoes
  <2>2. BaseInv /\ NotedInv /\ Shape(r)
    BY <2>1, ShapeOf DEF UseInv, BaseInv
  <2>3. SUFFICES ASSUME NEW g \in Segment, g \notin disturbed'
                 PROVE  /\ \A q \in Users(g)' : RunData(q, g)'
                        /\ program' = "sem" /\ Attached(g)' /\ sem_r'[g] > 0 => data'[g] = Cell
    BY DEF DataInv
  <2>4. /\ data \in [Segment -> SUBSET Cell] /\ data' \in [Segment -> SUBSET Cell]
        /\ sem_r \in [Segment -> Nat] /\ sem_r' \in [Segment -> Nat]
        /\ NoSegment \notin Segment
    BY <2>2, ProcessSyncAssumption DEF BaseInv, Types, TypeOK, Shape, SegTypes
  <2>5. CASE ~Attached(g)'
    <3>1. ASSUME NEW q \in Users(g)'
          PROVE  RunData(q, g)'
      <4>1. pc'[q] \in {"off", "shmat", "rmid"} /\ child'[q] = "off"
        BY <2>5 DEF Attached
      <4> QED BY <4>1, NoData DEF Users
    <3> QED BY <2>5, <3>1
  <2>6. CASE Attached(g)'
    <3>1. g \notin disturbed /\ ~Disturbance(g) /\ ~Disturbance(g)'
      BY <2>1, <2>2, <2>3, <2>6, InOrder
    <3>2. ~Wiped(g)
      BY <2>6 DEF Wiped, Exists
    <3>3. /\ \A q \in Users(g) : RunData(q, g)
          /\ program = "sem" /\ Attached(g) /\ sem_r[g] > 0 => data[g] = Cell
      BY <3>1 DEF DataInv
    <3>4. ASSUME NEW q \in Users(g)', q # r
          PROVE  RunData(q, g)'
      <4>1. Untouched(q) /\ q \in Users(g) /\ q \in Run
        BY <2>2, <3>4 DEF Shape, Untouched, Users
      <4>2. CASE ZeroData(r) /\ g = shm_id[r]
        <5>1. SettingUp(g)
          BY <4>2 DEF ZeroData, Goto, SettingUp, Users
        <5>2. Writing(g) \cup Reading(g) = {}
          BY <3>1, <5>1 DEF Disturbance
        <5> QED BY <2>1, <3>3, <4>1, <5>2, IdleData
      <4>3. CASE ~(ZeroData(r) /\ g = shm_id[r])
        <5>1. data[g] \subseteq data'[g]
          BY <2>1, <2>2, <3>2, <4>3, ArrayGrows, Elsewhere DEF Keeps
        <5> QED BY <2>1, <2>4, <3>3, <4>1, <5>1, OthersData
      <4> QED BY <4>2, <4>3
    <3>5. ASSUME r \in Users(g)'
          PROVE  RunData(r, g)'
      <4>1. CASE g = shm_id[r]
        BY <2>1, <2>2, <3>1, <3>2, <3>3, <3>5, <4>1, OwnData DEF Users
      <4>2. CASE g # shm_id[r]
        <5>1. r \notin Past(g)' /\ r \notin Writing(g)'
          BY <2>1, <2>2, <4>2, Elsewhere
        <5>2. pc'[r] \notin {"write", "post_r"} /\ child'[r] = "off"
          BY <3>5, <5>1 DEF Past, Writing, Users
        <5> QED BY <5>2, NoData
      <4> QED BY <4>1, <4>2
    <3>6. ASSUME program' = "sem", sem_r'[g] > 0
          PROVE  data'[g] = Cell
      <4>1. program = "sem" /\ ~SettingUp(g)'
        BY <2>1, <3>1, <3>6 DEF Disturbance
      <4>2. CASE g # shm_id[r]
        BY <2>1, <2>2, <3>2, <3>3, <3>6, <2>6, <4>1, <4>2, Elsewhere DEF Keeps
      <4>3. CASE g = shm_id[r]
        <5>1. ~Shmat(r) /\ ~ZeroData(r)
          <6>1. Shmat(r) => pc'[r] = "zero" /\ shm_id'[r] = g
            BY <2>1, <2>2, <4>3, Points DEF MainGoes
          <6>2. ZeroData(r) => pc'[r] = "sem_w" /\ shm_id'[r] = g
            BY <2>1, <2>2, <4>1, <4>3, Points
          <6> QED BY <4>1, <6>1, <6>2 DEF SettingUp, Users
        <5>2. Attached(g)
          BY <2>1, <2>2, <2>6, <5>1, AttachedBefore
        <5>3. CASE sem_r[g] > 0
          <6>1. data[g] = Cell
            BY <3>3, <4>1, <5>2, <5>3
          <6> QED BY <2>1, <2>2, <2>4, <3>2, <5>1, <6>1, ArrayGrows
        <5>4. CASE ~(sem_r[g] > 0)
          <6>1. sem_r[g] = 0 /\ sem_r'[g] # sem_r[g]
            BY <2>4, <3>6, <5>4
          <6>2. PostR(r)
            <7>1. ~(Shmget(r) \/ Fork(r) \/ Wake(r) \/ ReadCell(r) \/ WaitW(r)
                    \/ WriteCell(r) \/ PostW(r) \/ Stir(r))
              BY <2>1, <2>2, <6>1, Points DEF segvars
            <7>2. ~InitSems(r)
              BY <2>1, <2>2, <2>4, <3>6, <4>3, <6>1, Points
            <7>3. ~WaitR(r)
              BY <2>1, <2>2, <4>3, <5>4, Points
            <7>4. ~(Shmdt(r) \/ Rmid(r) \/ ChildEnds(r) \/ Fails(r) \/ Kill(r))
              BY <2>1, <2>2, <3>2, <6>1, Points DEF Parts, Keeps
            <7> QED BY <2>1, <5>1, <7>1, <7>2, <7>3, <7>4 DEF Does, Main, Parent, Child
          <6>3. pc[r] = "post_r" /\ i[r] = DataSize /\ UNCHANGED data
            BY <2>2, <6>2 DEF PostR, Goto, BaseInv, RunInv
          <6>4. 0 .. i[r] - 1 \subseteq data[g]
            BY <3>3, <4>3, <6>3 DEF RunData, Users
          <6> QED BY <2>4, <6>3, <6>4 DEF Cell
        <5> QED BY <5>3, <5>4
      <4> QED BY <4>2, <4>3
    <3> QED BY <3>4, <3>5, <3>6
  <2> QED BY <2>5, <2>6
<1> QED BY <1>1, <1>2

(* A child that has read an array in order has read all of the data.       *)
THEOREM ReadsAll == Spec => []ReadsComplete
<1>1. UseInv /\ DataInv => ReadsComplete
  <2> SUFFICES ASSUME UseInv, DataInv, NEW r \in Run,
                      child[r] \in {"post_w", "done"}, shm_id[r] \notin disturbed
               PROVE  seen[r].written = Cell
    BY DEF ReadsComplete
  <2>1. shm_id[r] \in Segment
    BY DEF UseInv, BaseInv, Types, TypeOK, RunInv
  <2> QED BY <2>1 DEF DataInv, RunData, Users
<1>2. Init => DataInv
  BY InitData
<1> QED BY <1>1, <1>2, NextData, UseInvariance, PTL DEF Spec
=============================================================================
