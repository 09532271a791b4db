----------------------- MODULE ProducerConsumerProofs -----------------------
(***************************************************************************)
(* Theorems of ProducerConsumer for any number of producers and consumers, *)
(* any names and any BUFFER_SIZE.                                          *)
(***************************************************************************)
EXTENDS ProducerConsumer, FiniteSetTheorems, TLAPS

(* While the pool is being set up one producer is at work on it, alone, and *)
(* each semaphore keeps the value of its sem_init.                         *)
StartingInv ==
  order = "starting" =>
    \E p \in Producers :
      /\ pc[p] \in InitPC
      /\ pc[p] # "init_sync" => sync = 1
      /\ pc[p] \in {"init_empty", "open_data"} => full = 0
      /\ pc[p] = "open_data" => empty = BufferSize
      /\ \A q \in Proc \ {p} : pc[q] \in {"off", "prompt"}

GoodInv == Good => /\ \A p \in Proc : pc[p] \notin InitPC
                   /\ MutualExclusion

IInv == TypeOK /\ StartingInv /\ GoodInv

LEMMA NextSlotType == ASSUME NEW i \in Slot PROVE NextSlot(i) \in Slot
BY ProducerConsumerAssumption DEF NextSlot, Slot

LEMMA InitIInv == Init => IInv
BY ProducerConsumerAssumption
   DEF Init, IInv, TypeOK, StartingInv, GoodInv, Good, Slot, Proc, ProducerPC,
       ConsumerPC, CommonPC

(* Every action sets one pc; the others stay where they are.               *)
LEMMA TypeStep == TypeOK /\ [Next]_vars => TypeOK'
<1> SUFFICES ASSUME TypeOK, [Next]_vars PROVE TypeOK' OBVIOUS
<1> USE ProducerConsumerAssumption, NextSlotType
<1> USE DEF TypeOK, Proc, ProducerPC, ConsumerPC, CommonPC, PrintPC, InitPC, Goto,
            semvars, datavars
<1>0. 0 \in Slot
  BY DEF Slot
<1>1. CASE UNCHANGED vars
  BY <1>1 DEF vars
<1>2. ASSUME NEW p \in Producers,
             \/ CreateSem(p) \/ InitSync(p) \/ InitFull(p) \/ InitEmpty(p)
             \/ CreateData(p) \/ CreateDataFails(p) \/ AskProduct(p)
      PROVE  TypeOK'
  BY <1>0, <1>2 DEF CreateSem, InitSync, InitFull, InitEmpty, CreateData,
                    CreateDataFails, AskProduct, Early
<1>3. ASSUME NEW p \in Producers, Product(p) PROVE TypeOK'
  <2>1. \A old \in Item \cup {Zero, Torn}, new \in Item :
          HalfWritten(old, new) \in Item \cup {Zero, Torn}
    BY DEF HalfWritten
  <2>2. CASE Write(p)
    <3>1. names' \in [Slot -> Item \cup {Zero, Torn}]
      BY <2>1, <2>2 DEF Write
    <3>2. ptr' \in [Proc -> Slot]
      BY <2>2 DEF Write
    <3> QED BY <2>2, <3>1, <3>2 DEF Write
  <2>3. CASE Copy(p)
    BY <1>0, <2>3 DEF Copy
  <2>4. CASE ~Write(p) /\ ~Copy(p)
    BY <1>3, <2>4 DEF Product, WaitEmpty, ProducerSync, AdvanceRear,
                      ProducerPostSync, PostFull, sem_wait, sem_post
  <2> QED BY <2>2, <2>3, <2>4
<1>4. ASSUME NEW c \in Consumers, Attach(c) \/ AskConsume(c) \/ Consume(c)
      PROVE  TypeOK'
  BY <1>0, <1>4 DEF Attach, AskConsume, Early, Consume, WaitFull, ConsumerSync,
              Take, AdvanceFront, PrintProduct, ConsumerPostSync, PostEmpty,
              sem_wait, sem_post
<1>5. ASSUME NEW p \in Proc,
             Quit(p) \/ PrintShareData(p) \/ Kill(p)
      PROVE  TypeOK'
  BY <1>0, <1>5 DEF Quit, PrintShareData, AskPrint, Early, LookEmpty, Peek, Walk,
                    PrintName, Kill
<1> QED BY <1>1, <1>2, <1>3, <1>4, <1>5 DEF Next

-----------------------------------------------------------------------------
(* Setting up: a start is good when nobody else is inside the pool.        *)
LEMMA SetUpStep ==
  ASSUME IInv, NEW p \in Producers,
         \/ CreateSem(p) \/ InitSync(p) \/ InitFull(p) \/ InitEmpty(p)
         \/ CreateData(p) \/ CreateDataFails(p)
  PROVE  StartingInv' /\ GoodInv'
<1> USE ProducerConsumerAssumption
<1> USE DEF CreateSem, InitSync, InitFull, InitEmpty, CreateData,
            CreateDataFails, Goto
<1>0. /\ p \in Proc /\ pc \in [Proc -> ProducerPC \cup ConsumerPC]
      /\ \A q \in Proc \ {p} : pc'[q] = pc[q]
  BY DEF IInv, TypeOK, Proc
<1>1. CASE CreateSem(p)
  BY <1>0, <1>1 DEF StartingInv, GoodInv, Good, InitPC
<1>2. CASE InitSync(p) \/ InitFull(p) \/ InitEmpty(p)
  <2>1. order # "good"
    BY <1>0, <1>2 DEF IInv, GoodInv, Good, InitPC
  <2>2. order = "starting" => \A q \in Proc \ {p} : pc[q] \in {"off", "prompt"}
    BY <1>0, <1>2 DEF IInv, StartingInv, InitPC, Proc
  <2>3. /\ pc'[p] \in InitPC \ {"init_sync"} /\ order' = order
        /\ order = "starting" =>
             /\ sync' = 1
             /\ pc'[p] \in {"init_empty", "open_data"} => full' = 0
             /\ pc'[p] = "open_data" => empty' = BufferSize
    BY <1>0, <1>2 DEF IInv, StartingInv, InitPC, semvars
  <2> QED BY <2>1, <2>2, <2>3, <1>0 DEF StartingInv, GoodInv, Good
<1>3. CASE CreateData(p)
  <2>1. order' # "starting"
    BY <1>3
  <2>2. ASSUME order = "starting" PROVE GoodInv'
    <3>1. \A q \in Proc \ {p} : pc[q] \in {"off", "prompt"}
      BY <2>2, <1>0, <1>3 DEF IInv, StartingInv, InitPC, Proc
    <3>2. sync = 1
      BY <2>2, <1>0, <1>3 DEF IInv, StartingInv, InitPC, Proc
    <3>3. \A q \in Proc : pc'[q] \in {"off", "prompt"}
      BY <3>1, <1>0, <1>3
    <3> QED BY <3>2, <3>3, <1>3 DEF GoodInv, Good, MutualExclusion, Critical,
                                    InitPC, semvars
  <2> QED BY <2>1, <2>2, <1>3 DEF StartingInv, GoodInv, Good
<1>4. CASE CreateDataFails(p)
  BY <1>4 DEF StartingInv, GoodInv, Good
<1> QED BY <1>1, <1>2, <1>3, <1>4

(* A step that leaves sync alone and enters no critical section; from a    *)
(* start that is under way it can only start or end an idle process, or    *)
(* break the start.                                                        *)
LEMMA OutsideStep ==
  ASSUME IInv, NEW p \in Proc,
         \A q \in Proc \ {p} : pc'[q] = pc[q],
         UNCHANGED sync,
         pc'[p] \notin InitPC,
         order' # "broken" => /\ order' = order
                              /\ Critical(p) <=> Critical(p)'
                              /\ order = "starting" => /\ pc'[p] \in {"off", "prompt"}
                                                       /\ pc[p] \notin InitPC
                                                       /\ UNCHANGED <<empty, full>>
  PROVE  StartingInv' /\ GoodInv'
<1>1. StartingInv'
  BY DEF IInv, StartingInv, Proc
<1>2. ASSUME Good' PROVE /\ \A q \in Proc : pc'[q] \notin InitPC
                         /\ MutualExclusion'
  <2>1. Good /\ \A q \in Proc : Critical(q)' <=> Critical(q)
    BY <1>2 DEF Good, Critical
  <2> QED BY <2>1 DEF IInv, GoodInv, MutualExclusion
<1> QED BY <1>1, <1>2 DEF GoodInv

LEMMA ProcessStep ==
  ASSUME IInv, NEW p \in Proc,
         \/ Quit(p) \/ PrintShareData(p) \/ Kill(p)
         \/ p \in Producers /\ (AskProduct(p) \/ WaitEmpty(p) \/ Write(p) \/ Copy(p)
                                \/ AdvanceRear(p) \/ PostFull(p))
         \/ p \in Consumers /\ (Attach(p) \/ AskConsume(p) \/ WaitFull(p) \/ Take(p)
                                \/ AdvanceFront(p) \/ PrintProduct(p)
                                \/ PostEmpty(p))
  PROVE  StartingInv' /\ GoodInv'
<1> USE ProducerConsumerAssumption
<1> USE DEF Quit, PrintShareData, AskPrint, LookEmpty, Peek, Walk, PrintName, Kill,
            AskProduct, WaitEmpty, Write, Copy,
            AdvanceRear, PostFull, Attach, AskConsume, WaitFull, Take,
            AdvanceFront, PrintProduct, PostEmpty, Goto, Early, semvars
<1>1. /\ pc \in [Proc -> ProducerPC \cup ConsumerPC]
      /\ order \in {"starting", "good", "broken"}
  BY DEF IInv, TypeOK
<1>2. /\ UNCHANGED sync /\ (order' = order \/ order' = "broken")
      /\ \E to : pc' = [pc EXCEPT ![p] = to] /\ to \notin InitPC
  BY <1>1 DEF InitPC
<1>3. order' # "broken" => order' = order /\ (Critical(p) <=> Critical(p)')
  BY <1>1 DEF Critical, PrintPC
<1>4. order = "starting" => pc[p] \in {"off", "prompt"} \cup InitPC
  BY DEF IInv, StartingInv
<1>5. order' # "broken" /\ order = "starting" =>
        /\ pc'[p] \in {"off", "prompt"} /\ pc[p] \notin InitPC
        /\ UNCHANGED <<empty, full>>
  BY <1>1, <1>4 DEF InitPC, PrintPC
<1>6. (\A q \in Proc \ {p} : pc'[q] = pc[q]) /\ pc'[p] \notin InitPC
  BY <1>1, <1>2
<1> QED BY <1>2, <1>3, <1>5, <1>6, OutsideStep

(* sem_wait(sync) and sem_post(sync).                                      *)
LEMMA SyncStep ==
  ASSUME IInv, NEW p \in Proc,
         \/ p \in Producers /\ (ProducerSync(p) \/ ProducerPostSync(p))
         \/ p \in Consumers /\ (ConsumerSync(p) \/ ConsumerPostSync(p))
  PROVE  StartingInv' /\ GoodInv'
<1> USE DEF ProducerSync, ProducerPostSync, ConsumerSync, ConsumerPostSync, Goto,
            sem_wait, sem_post
<1>1. /\ pc \in [Proc -> ProducerPC \cup ConsumerPC] /\ sync \in Nat
      /\ order' = order /\ \A q \in Proc \ {p} : pc'[q] = pc[q]
  BY DEF IInv, TypeOK
<1>2. \/ /\ pc[p] = "wait_sync" /\ pc'[p] \in {"write", "take"}
         /\ sync > 0 /\ sync' = sync - 1
      \/ /\ pc[p] = "post_sync" /\ pc'[p] \in {"post_full", "post_empty"}
         /\ sync' = sync + 1
  BY <1>1
<1>3. order # "starting"
  BY <1>2 DEF IInv, StartingInv, InitPC
<1>4. ASSUME Good PROVE GoodInv'
  <2>1. /\ \A q \in Proc : pc[q] \notin InitPC
        /\ \A q, r \in Proc : Critical(q) /\ Critical(r) => q = r
        /\ sync = IF \E q \in Proc : Critical(q) THEN 0 ELSE 1
    BY <1>4 DEF IInv, GoodInv, MutualExclusion
  <2>2. \A q \in Proc \ {p} : Critical(q)' <=> Critical(q)
    BY <1>1 DEF Critical
  <2>3. \A q \in Proc : pc'[q] \notin InitPC
    BY <2>1, <1>1, <1>2 DEF InitPC
  <2>4. CASE pc[p] = "wait_sync"
    <3>1. sync = 1 /\ sync' = 0 /\ Critical(p)' /\ \A q \in Proc : ~Critical(q)
      BY <2>1, <2>4, <1>2 DEF Critical
    <3> QED BY <2>2, <2>3, <3>1 DEF GoodInv, MutualExclusion
  <2>5. CASE pc[p] = "post_sync"
    <3>1. sync = 0 /\ sync' = 1 /\ ~Critical(p)' /\ \A q \in Proc \ {p} : ~Critical(q)
      BY <2>1, <2>5, <1>2 DEF Critical
    <3> QED BY <2>2, <2>3, <3>1 DEF GoodInv, MutualExclusion
  <2> QED BY <2>4, <2>5, <1>2
<1> QED BY <1>1, <1>3, <1>4 DEF StartingInv, GoodInv, Good

LEMMA NextIInv == IInv /\ [Next]_vars => IInv'
<1> SUFFICES ASSUME IInv, [Next]_vars PROVE IInv' OBVIOUS
<1>1. TypeOK'
  BY TypeStep DEF IInv
<1>2. CASE UNCHANGED vars
  BY <1>2 DEF vars, semvars, IInv, TypeOK, StartingInv, GoodInv, Good,
              MutualExclusion, Critical, datavars
<1>3. CASE Next
  <2>1. Producers \subseteq Proc /\ Consumers \subseteq Proc
    BY DEF Proc
  <2> QED BY <1>1, <1>3, <2>1, SetUpStep, ProcessStep, SyncStep
             DEF Next, Product, Consume, IInv
<1> QED BY <1>2, <1>3

LEMMA Invariance == Spec => []IInv
BY InitIInv, NextIInv, PTL DEF Spec

(* The variables of ProducerConsumer keep their types, whatever the users  *)
(* do: front and rear never leave the ring (producer.c:18, consumer.c:18). *)
THEOREM TypeCorrect == Spec => []TypeOK
BY Invariance, PTL DEF IInv

(* From a good start of a producer until the pool is disturbed, sync lets  *)
(* one process at a time into the critical sections of product and         *)
(* consume; a process that waits may be killed or may leave meanwhile.     *)
THEOREM Exclusion == Spec => []MutualExclusion
<1>1. IInv => MutualExclusion
  BY DEF IInv, GoodInv, MutualExclusion
<1> QED BY <1>1, Invariance, PTL

-----------------------------------------------------------------------------
(* Counting the processes that are under way                               *)

(* Those that have taken their turn on empty or full and have not yet      *)
(* moved rear or front, and those that have and have yet to post.          *)
Filling == {"wait_sync", "write", "copy", "advance"}
Delivering == {"post_sync", "post_full"}
Taking == {"wait_sync", "take", "advance"}
Releasing == {"print", "post_sync", "post_empty"}

Those(P, where) == {p \in P : pc[p] \in where}
One(p, where) == IF pc[p] \in where THEN 1 ELSE 0

(* There are finitely many of them, even if there are infinitely many      *)
(* processes, because a good start finds all of them outside.              *)
CountInv ==
  Good => /\ IsFiniteSet(Those(Producers, Filling))
          /\ IsFiniteSet(Those(Producers, Delivering))
          /\ IsFiniteSet(Those(Consumers, Taking))
          /\ IsFiniteSet(Those(Consumers, Releasing))
          /\ SlotAccounting

(* The step of one process changes a count by that process.                *)
LEMMA AtStep ==
  ASSUME NEW P, NEW where, NEW p \in P, IsFiniteSet(Those(P, where)),
         \A q \in P \ {p} : pc'[q] = pc[q]
  PROVE  /\ IsFiniteSet(Those(P, where)')
         /\ At(P, where) \in Nat /\ At(P, where)' \in Nat
         /\ At(P, where)' - One(p, where)' = At(P, where) - One(p, where)
<1> DEFINE Rest == Those(P, where) \ {p}
<1>1. /\ IsFiniteSet(Rest) /\ Cardinality(Rest) \in Nat
      /\ Cardinality(Those(P, where)) \in Nat
      /\ Cardinality(Rest) = Cardinality(Those(P, where)) - One(p, where)
  <2>1. /\ IsFiniteSet(Rest)
        /\ Cardinality(Rest) = Cardinality(Those(P, where))
                                 - IF p \in Those(P, where) THEN 1 ELSE 0
    <3> HIDE DEF Those
    <3> QED BY FS_RemoveElement, FS_CardinalityType
  <2>2. p \in Those(P, where) <=> pc[p] \in where
    BY DEF Those
  <2>3. Cardinality(Rest) \in Nat /\ Cardinality(Those(P, where)) \in Nat
    BY <2>1, FS_CardinalityType
  <2> QED BY <2>1, <2>2, <2>3 DEF One
<1>2. /\ IsFiniteSet(Rest \cup {p})
      /\ Cardinality(Rest \cup {p}) = Cardinality(Rest) + 1
  BY <1>1, FS_AddElement
<1>3. Those(P, where)' = IF pc'[p] \in where THEN Rest \cup {p} ELSE Rest
  BY DEF Those
<1>4. At(P, where) = Cardinality(Those(P, where))
  BY DEF At, Those
<1>5. At(P, where)' = Cardinality(Those(P, where)')
  BY DEF At, Those
<1>6. CASE pc'[p] \in where
  BY <1>1, <1>2, <1>3, <1>4, <1>5, <1>6 DEF One
<1>7. CASE pc'[p] \notin where
  BY <1>1, <1>3, <1>4, <1>5, <1>7 DEF One
<1> QED BY <1>6, <1>7

LEMMA AtFrame ==
  ASSUME NEW P, NEW where, \A q \in P : pc'[q] = pc[q]
  PROVE  Those(P, where)' = Those(P, where) /\ At(P, where)' = At(P, where)
BY DEF Those, At

(* A count of processes is a natural number, and positive where some       *)
(* process is.                                                             *)
LEMMA AtType ==
  ASSUME NEW P, NEW where, IsFiniteSet(Those(P, where))
  PROVE  /\ At(P, where) \in Nat
         /\ \A p \in P : pc[p] \in where => At(P, where) > 0
<1>1. At(P, where) = Cardinality(Those(P, where))
  BY DEF At, Those
<1>2. Cardinality(Those(P, where)) \in Nat /\
      (Cardinality(Those(P, where)) = 0 <=> Those(P, where) = {})
  BY FS_CardinalityType, FS_EmptySet
<1> QED BY <1>1, <1>2 DEF Those

(* Moving rear on adds a name unless the ring is full, moving front on     *)
(* takes one off unless it is empty.                                       *)
LEMMA UsedFacts ==
  ASSUME front \in Slot, rear \in Slot
  PROVE  /\ Used \in 0 .. BufferSize
         /\ Used < BufferSize /\ rear' = NextSlot(rear) /\ front' = front =>
              Used' = Used + 1
         /\ Used > 0 /\ front' = NextSlot(front) /\ rear' = rear =>
              Used' = Used - 1
         /\ front' = front /\ rear' = rear => Used' = Used
BY ProducerConsumerAssumption DEF Used, Slot, NextSlot

(* The equations of SlotAccounting, by name.                               *)
LEMMA Equations ==
  SlotAccounting <=>
    (Good => /\ full + At(Consumers, Taking) + At(Producers, Delivering) = Used
             /\ empty + At(Producers, Filling) + At(Consumers, Releasing)
                  = BufferSize - Used)
BY DEF SlotAccounting, Taking, Delivering, Filling, Releasing

(* A producer keeps the equations when it changes both sides alike.        *)
LEMMA ProducerCounts ==
  ASSUME TypeOK, TypeOK', CountInv, Good, Good', NEW p \in Producers,
         \A q \in Proc \ {p} : pc'[q] = pc[q],
         full' + One(p, Delivering)' - Used' = full + One(p, Delivering) - Used,
         empty' + One(p, Filling)' + Used' = empty + One(p, Filling) + Used
  PROVE  CountInv'
<1>1. /\ \A q \in Producers \ {p} : pc'[q] = pc[q]
      /\ \A q \in Consumers : pc'[q] = pc[q]
  BY ProducerConsumerAssumption DEF Proc
<1>2. /\ IsFiniteSet(Those(Producers, Filling)')
      /\ At(Producers, Filling) \in Nat /\ At(Producers, Filling)' \in Nat
      /\ At(Producers, Filling)' - One(p, Filling)'
           = At(Producers, Filling) - One(p, Filling)
  BY <1>1, AtStep DEF CountInv
<1>3. /\ IsFiniteSet(Those(Producers, Delivering)')
      /\ At(Producers, Delivering) \in Nat /\ At(Producers, Delivering)' \in Nat
      /\ At(Producers, Delivering)' - One(p, Delivering)'
           = At(Producers, Delivering) - One(p, Delivering)
  BY <1>1, AtStep DEF CountInv
<1>4. /\ Those(Consumers, Taking)' = Those(Consumers, Taking)
      /\ At(Consumers, Taking)' = At(Consumers, Taking)
      /\ Those(Consumers, Releasing)' = Those(Consumers, Releasing)
      /\ At(Consumers, Releasing)' = At(Consumers, Releasing)
  BY <1>1, AtFrame
<1>5. At(Consumers, Taking) \in Nat /\ At(Consumers, Releasing) \in Nat
  BY AtType DEF CountInv
<1>6. /\ full + At(Consumers, Taking) + At(Producers, Delivering) = Used
      /\ empty + At(Producers, Filling) + At(Consumers, Releasing)
           = BufferSize - Used
  BY Equations DEF CountInv
<1>7. /\ Used \in Nat /\ Used' \in Nat /\ BufferSize \in Nat
      /\ full \in Nat /\ full' \in Nat /\ empty \in Nat /\ empty' \in Nat
      /\ One(p, Delivering) \in Nat /\ One(p, Delivering)' \in Nat
      /\ One(p, Filling) \in Nat /\ One(p, Filling)' \in Nat
  <2>1. front' \in Slot /\ rear' \in Slot => Used' \in Nat
    BY ProducerConsumerAssumption DEF Used, Slot
  <2> QED BY <2>1, UsedFacts, ProducerConsumerAssumption DEF TypeOK, One
<1>8. SlotAccounting'
  <2>1. /\ full' + At(Consumers, Taking)' + At(Producers, Delivering)' = Used'
        /\ empty' + At(Producers, Filling)' + At(Consumers, Releasing)'
             = BufferSize - Used'
    BY <1>2, <1>3, <1>4, <1>5, <1>6, <1>7
  <2> QED BY <2>1 DEF SlotAccounting, Taking, Delivering, Filling, Releasing
<1> QED BY <1>2, <1>3, <1>4, <1>8 DEF CountInv

LEMMA ConsumerCounts ==
  ASSUME TypeOK, TypeOK', CountInv, Good, Good', NEW c \in Consumers,
         \A q \in Proc \ {c} : pc'[q] = pc[q],
         full' + One(c, Taking)' - Used' = full + One(c, Taking) - Used,
         empty' + One(c, Releasing)' + Used' = empty + One(c, Releasing) + Used
  PROVE  CountInv'
<1>1. /\ \A q \in Consumers \ {c} : pc'[q] = pc[q]
      /\ \A q \in Producers : pc'[q] = pc[q]
  BY ProducerConsumerAssumption DEF Proc
<1>2. /\ IsFiniteSet(Those(Consumers, Taking)')
      /\ At(Consumers, Taking) \in Nat /\ At(Consumers, Taking)' \in Nat
      /\ At(Consumers, Taking)' - One(c, Taking)'
           = At(Consumers, Taking) - One(c, Taking)
  BY <1>1, AtStep DEF CountInv
<1>3. /\ IsFiniteSet(Those(Consumers, Releasing)')
      /\ At(Consumers, Releasing) \in Nat /\ At(Consumers, Releasing)' \in Nat
      /\ At(Consumers, Releasing)' - One(c, Releasing)'
           = At(Consumers, Releasing) - One(c, Releasing)
  BY <1>1, AtStep DEF CountInv
<1>4. /\ Those(Producers, Filling)' = Those(Producers, Filling)
      /\ At(Producers, Filling)' = At(Producers, Filling)
      /\ Those(Producers, Delivering)' = Those(Producers, Delivering)
      /\ At(Producers, Delivering)' = At(Producers, Delivering)
  BY <1>1, AtFrame
<1>5. At(Producers, Filling) \in Nat /\ At(Producers, Delivering) \in Nat
  BY AtType DEF CountInv
<1>6. /\ full + At(Consumers, Taking) + At(Producers, Delivering) = Used
      /\ empty + At(Producers, Filling) + At(Consumers, Releasing)
           = BufferSize - Used
  BY Equations DEF CountInv
<1>7. /\ Used \in Nat /\ Used' \in Nat /\ BufferSize \in Nat
      /\ full \in Nat /\ full' \in Nat /\ empty \in Nat /\ empty' \in Nat
      /\ One(c, Taking) \in Nat /\ One(c, Taking)' \in Nat
      /\ One(c, Releasing) \in Nat /\ One(c, Releasing)' \in Nat
  <2>1. front' \in Slot /\ rear' \in Slot => Used' \in Nat
    BY ProducerConsumerAssumption DEF Used, Slot
  <2> QED BY <2>1, UsedFacts, ProducerConsumerAssumption DEF TypeOK, One
<1>8. SlotAccounting'
  <2>1. /\ full' + At(Consumers, Taking)' + At(Producers, Delivering)' = Used'
        /\ empty' + At(Producers, Filling)' + At(Consumers, Releasing)'
             = BufferSize - Used'
    BY <1>2, <1>3, <1>4, <1>5, <1>6, <1>7
  <2> QED BY <2>1 DEF SlotAccounting, Taking, Delivering, Filling, Releasing
<1> QED BY <1>2, <1>3, <1>4, <1>8 DEF CountInv

-----------------------------------------------------------------------------
(* A pool becomes good only when its producer has created the data file,   *)
(* and a disturbed one stays so until the next start.                      *)
LEMMA GoodBegins ==
  ASSUME [Next]_vars, Good'
  PROVE  Good \/ \E p \in Producers : CreateData(p) /\ order = "starting"
<1> USE DEF Good, Early
<1>1. CASE UNCHANGED vars
  BY <1>1 DEF vars
<1>2. ASSUME NEW p \in Producers,
             \/ CreateSem(p) \/ InitSync(p) \/ InitFull(p) \/ InitEmpty(p)
             \/ CreateData(p) \/ CreateDataFails(p) \/ AskProduct(p) \/ Product(p)
      PROVE  Good \/ (CreateData(p) /\ order = "starting")
  BY <1>2 DEF CreateSem, InitSync, InitFull, InitEmpty, CreateData, CreateDataFails,
              AskProduct, Product, WaitEmpty, ProducerSync, Write, Copy, AdvanceRear,
              ProducerPostSync, PostFull
<1>3. ASSUME NEW c \in Consumers, Attach(c) \/ AskConsume(c) \/ Consume(c)
      PROVE  Good
  BY <1>3 DEF Attach, AskConsume, Consume, WaitFull, ConsumerSync, Take,
              AdvanceFront, PrintProduct, ConsumerPostSync, PostEmpty
<1>4. ASSUME NEW p \in Proc,
             Quit(p) \/ PrintShareData(p) \/ Kill(p)
      PROVE  Good
  BY <1>4 DEF Quit, PrintShareData, AskPrint, LookEmpty, Peek, Walk, PrintName, Kill
<1> QED BY <1>1, <1>2, <1>3, <1>4 DEF Next

(* What a good start finds: nobody inside, and the semaphores as sem_init  *)
(* left them.                                                              *)
LEMMA GoodStart ==
  ASSUME IInv, NEW p \in Producers, CreateData(p), order = "starting"
  PROVE  /\ \A q \in Proc : pc'[q] \in {"off", "prompt"}
         /\ sync' = 1 /\ full' = 0 /\ empty' = BufferSize
         /\ front' = 0 /\ rear' = 0 /\ names' = [i \in Slot |-> Zero]
         /\ \A q \in Proc \ {p} : pc[q] = pc'[q]
         /\ UNCHANGED <<input, ptr, out>>
<1>1. p \in Proc /\ pc \in [Proc -> ProducerPC \cup ConsumerPC]
  BY DEF IInv, TypeOK, Proc
<1>2. /\ \A q \in Proc \ {p} : pc[q] \in {"off", "prompt"}
      /\ sync = 1 /\ full = 0 /\ empty = BufferSize
  BY <1>1 DEF IInv, StartingInv, CreateData, Goto, InitPC, Proc
<1> QED BY <1>1, <1>2 DEF CreateData, Goto, semvars

(* The steps after which a good pool is still good, and which processes    *)
(* are entitled to them.                                                   *)
LEMMA GoodSteps ==
  ASSUME TypeOK, Next, Good, Good'
  PROVE  \/ \E p \in Producers : AskProduct(p) \/ Product(p)
         \/ \E c \in Consumers : Attach(c) \/ AskConsume(c) \/ Consume(c)
         \/ \E p \in Proc : Quit(p) \/ PrintShareData(p) \/ Kill(p)
         \/ \E p \in Producers : InitSync(p) \/ InitFull(p) \/ InitEmpty(p)
BY DEF Next, Good, CreateSem, CreateData, CreateDataFails

(* Every step keeps the account of the slots.                              *)
LEMMA CountStep ==
  ASSUME IInv, IInv', CountInv, [Next]_vars
  PROVE  CountInv'
<1> SUFFICES ASSUME Good' PROVE CountInv'
  BY DEF CountInv
<1>1. TypeOK /\ TypeOK'
  BY DEF IInv
<1>2. ASSUME NEW p \in Producers, CreateData(p), order = "starting"
      PROVE  CountInv'
  <2>1. /\ \A q \in Proc : pc'[q] \in {"off", "prompt"}
        /\ full' = 0 /\ empty' = BufferSize /\ front' = 0 /\ rear' = 0
    BY <1>2, GoodStart
  <2>2. /\ Those(Producers, Filling)' = {} /\ Those(Producers, Delivering)' = {}
        /\ Those(Consumers, Taking)' = {} /\ Those(Consumers, Releasing)' = {}
    BY <2>1 DEF Those, Filling, Delivering, Taking, Releasing, Proc
  <2>3. /\ At(Producers, Filling)' = 0 /\ At(Producers, Delivering)' = 0
        /\ At(Consumers, Taking)' = 0 /\ At(Consumers, Releasing)' = 0
    BY <2>2, FS_EmptySet DEF At, Those
  <2>4. Used' = 0
    BY <2>1 DEF Used
  <2>5. SlotAccounting'
    BY <2>1, <2>3, <2>4, ProducerConsumerAssumption
       DEF SlotAccounting, Filling, Delivering, Taking, Releasing
  <2> QED BY <2>2, <2>5, FS_EmptySet DEF CountInv
<1>3. ASSUME Good PROVE CountInv'
  <2>1. CASE UNCHANGED vars
    BY <1>3, <2>1 DEF CountInv, vars, semvars, datavars, SlotAccounting, Used, At,
                      Those, Good
  <2> DEFINE Idle == {"off", "prompt", "wait_empty", "wait_full"} \cup PrintPC
  <2>2. /\ front' = front /\ rear' = rear => Used' = Used
        /\ Used \in Int
    BY <1>1, UsedFacts DEF TypeOK
  (* A step outside of product and consume, by whichever process.          *)
  <2>3. ASSUME NEW p \in Proc, \A q \in Proc \ {p} : pc'[q] = pc[q],
               pc[p] \in Idle, pc'[p] \in Idle,
               UNCHANGED <<empty, full, front, rear>>
        PROVE  CountInv'
    <3>1. CASE p \in Producers
      BY <1>1, <1>3, <2>2, <2>3, <3>1, ProducerCounts
         DEF One, Filling, Delivering, PrintPC, TypeOK
    <3>2. CASE p \in Consumers
      BY <1>1, <1>3, <2>2, <2>3, <3>2, ConsumerCounts
         DEF One, Taking, Releasing, PrintPC, TypeOK
    <3> QED BY <3>1, <3>2 DEF Proc
  <2>4. ASSUME NEW p \in Proc,
               \/ Quit(p) \/ PrintShareData(p) \/ Kill(p)
               \/ p \in Producers /\ AskProduct(p)
               \/ p \in Consumers /\ (Attach(p) \/ AskConsume(p))
        PROVE  CountInv'
    <3>1. /\ pc[p] \in Idle /\ pc'[p] \in Idle
          /\ \A q \in Proc \ {p} : pc'[q] = pc[q]
          /\ UNCHANGED <<empty, full, front, rear>>
      BY <1>1, <1>3, <2>4 DEF TypeOK, Good, PrintPC, Quit, PrintShareData, AskPrint,
                              LookEmpty, Peek, Walk, PrintName, Kill,
           AskProduct, Attach, AskConsume, Early, Goto, semvars, datavars
    <3> QED BY <2>3, <3>1
  <2>5. ASSUME NEW p \in Producers, Product(p) PROVE CountInv'
    <3> USE DEF Goto, semvars, datavars, One, Filling, Delivering
    <3>1. p \in Proc /\ \A q \in Proc \ {p} : pc'[q] = pc[q]
      BY <1>1, <2>5 DEF Proc, TypeOK, Product, WaitEmpty, ProducerSync, Write, Copy,
                        AdvanceRear, ProducerPostSync, PostFull
    <3>2. CASE AdvanceRear(p)
      <4>1. At(Producers, Filling) > 0 /\ At(Consumers, Releasing) \in Nat
        BY <1>3, <3>2, AtType DEF CountInv, AdvanceRear
      <4>2. Used < BufferSize
        <5>1. At(Producers, Filling) \in Nat
          BY <1>3, AtType DEF CountInv
        <5>2. empty + At(Producers, Filling) + At(Consumers, Releasing)
                = BufferSize - Used
          BY <1>3, Equations DEF CountInv
        <5> QED BY <4>1, <5>1, <5>2, <1>1, <2>2, ProducerConsumerAssumption DEF TypeOK
      <4>3. Used' = Used + 1
        BY <1>1, <3>2, <4>2, UsedFacts DEF TypeOK, AdvanceRear
      <4>4. pc[p] = "advance" /\ pc'[p] = "post_sync" /\ UNCHANGED <<empty, full>>
        BY <1>1, <3>1, <3>2 DEF TypeOK, AdvanceRear
      <4> QED BY <1>1, <1>3, <2>2, <3>1, <4>3, <4>4, ProducerCounts DEF TypeOK
    <3>3. CASE WaitEmpty(p)
      BY <1>1, <1>3, <2>2, <3>1, <3>3, ProducerCounts
         DEF TypeOK, WaitEmpty, sem_wait
    <3>4. CASE PostFull(p)
      BY <1>1, <1>3, <2>2, <3>1, <3>4, ProducerCounts
         DEF TypeOK, PostFull, sem_post
    <3>5. CASE ProducerSync(p) \/ Write(p) \/ Copy(p) \/ ProducerPostSync(p)
      BY <1>1, <1>3, <2>2, <3>1, <3>5, ProducerCounts
         DEF TypeOK, ProducerSync, Write, Copy, ProducerPostSync
    <3> QED BY <2>5, <3>2, <3>3, <3>4, <3>5 DEF Product
  <2>6. ASSUME NEW c \in Consumers, Consume(c) PROVE CountInv'
    <3> USE DEF Goto, semvars, datavars, One, Taking, Releasing
    <3>1. c \in Proc /\ \A q \in Proc \ {c} : pc'[q] = pc[q]
      BY <1>1, <2>6 DEF Proc, TypeOK, Consume, WaitFull, ConsumerSync, Take,
                        AdvanceFront, PrintProduct, ConsumerPostSync, PostEmpty
    <3>2. CASE AdvanceFront(c)
      <4>1. At(Consumers, Taking) > 0
        BY <1>3, <3>2, AtType DEF CountInv, AdvanceFront
      <4>2. Used > 0
        <5>1. At(Consumers, Taking) \in Nat /\ At(Producers, Delivering) \in Nat
          BY <1>3, AtType DEF CountInv
        <5>2. full + At(Consumers, Taking) + At(Producers, Delivering) = Used
          BY <1>3, Equations DEF CountInv
        <5> QED BY <4>1, <5>1, <5>2, <1>1, <2>2 DEF TypeOK
      <4>3. Used' = Used - 1
        BY <1>1, <3>2, <4>2, UsedFacts DEF TypeOK, AdvanceFront
      <4>4. pc[c] = "advance" /\ pc'[c] = "print" /\ UNCHANGED <<empty, full>>
        BY <1>1, <3>1, <3>2 DEF TypeOK, AdvanceFront
      <4> QED BY <1>1, <1>3, <2>2, <3>1, <4>3, <4>4, ConsumerCounts DEF TypeOK
    <3>3. CASE WaitFull(c)
      BY <1>1, <1>3, <2>2, <3>1, <3>3, ConsumerCounts
         DEF TypeOK, WaitFull, sem_wait
    <3>4. CASE PostEmpty(c)
      BY <1>1, <1>3, <2>2, <3>1, <3>4, ConsumerCounts
         DEF TypeOK, PostEmpty, sem_post
    <3>5. CASE ConsumerSync(c) \/ Take(c) \/ PrintProduct(c) \/ ConsumerPostSync(c)
      BY <1>1, <1>3, <2>2, <3>1, <3>5, ConsumerCounts
         DEF TypeOK, ConsumerSync, Take, PrintProduct, ConsumerPostSync
    <3> QED BY <2>6, <3>2, <3>3, <3>4, <3>5 DEF Consume
  <2>7. ASSUME NEW p \in Producers, InitSync(p) \/ InitFull(p) \/ InitEmpty(p)
        PROVE  CountInv'
    BY <1>3, <2>7 DEF IInv, GoodInv, InitSync, InitFull, InitEmpty, Goto, InitPC, Proc
  <2>8. Producers \subseteq Proc /\ Consumers \subseteq Proc
    BY DEF Proc
  <2> QED BY <1>1, <1>3, <2>1, <2>4, <2>5, <2>6, <2>7, <2>8, GoodSteps
<1> QED BY <1>2, <1>3, GoodBegins

-----------------------------------------------------------------------------
(* The names in the ring                                                   *)

(* Outside of the print at the end of its critical section a consumer has  *)
(* no name (a loop of main begins with none).                              *)
OutInv == \A c \in Consumers : pc[c] # "post_sync" => out[c] = Unset

(* Every slot holds a name, or rear has not come round: then the slots it  *)
(* has passed do, and nobody that prints the pool is beyond it.            *)
Filled == \A i \in Slot : names[i] # Zero
FirstRound ==
  /\ front <= rear
  /\ \A i \in Slot : i < rear => names[i] # Zero
  /\ \A p \in Proc : /\ pc[p] = "walk" => ptr[p] <= rear
                     /\ pc[p] = "name" => ptr[p] < rear

(* A torn name is one that a producer is copying, into the slot at rear.   *)
TornInv ==
  \A i \in Slot : names[i] = Torn =>
    \E q \in Producers : pc[q] = "copy" /\ ptr[q] = i

RingInv ==
  Good => /\ Filled \/ FirstRound
          /\ TornInv
          /\ \A p \in Producers : /\ pc[p] = "copy" => ptr[p] = rear
                                  /\ pc[p] = "advance" => names[rear] \in Item
          /\ \A c \in Consumers : pc[c] = "advance" => ptr[c] = front

(* Only a consumer about to post sync holds the name it has printed.       *)
LEMMA OutStep == ASSUME TypeOK, OutInv, [Next]_vars PROVE OutInv'
<1> USE DEF OutInv, Goto
<1>0. pc \in [Proc -> ProducerPC \cup ConsumerPC] /\ Producers \cap Consumers = {}
      /\ out \in [Consumers -> Item \cup {Zero, Torn, Unset}]
  BY ProducerConsumerAssumption DEF TypeOK
<1>1. CASE UNCHANGED vars
  BY <1>1 DEF vars
<1>2. ASSUME NEW p \in Producers,
             \/ CreateSem(p) \/ InitSync(p) \/ InitFull(p) \/ InitEmpty(p)
             \/ CreateData(p) \/ CreateDataFails(p) \/ AskProduct(p) \/ Product(p)
      PROVE  OutInv'
  BY <1>0, <1>2 DEF CreateSem, InitSync, InitFull, InitEmpty, CreateData,
              CreateDataFails, AskProduct, Product, WaitEmpty, ProducerSync, Write,
              Copy, AdvanceRear, ProducerPostSync, PostFull, Proc
<1>3. ASSUME NEW c \in Consumers, Attach(c) \/ AskConsume(c) \/ Consume(c)
      PROVE  OutInv'
  BY <1>0, <1>3 DEF Attach, AskConsume, Consume, WaitFull, ConsumerSync, Take,
              AdvanceFront, PrintProduct, ConsumerPostSync, PostEmpty, Proc
<1>4. ASSUME NEW p \in Proc,
             Quit(p) \/ PrintShareData(p) \/ Kill(p)
      PROVE  OutInv'
  BY <1>0, <1>4 DEF Quit, PrintShareData, AskPrint, LookEmpty, Peek, Walk, PrintName,
                    Kill, Proc
<1> QED BY <1>1, <1>2, <1>3, <1>4 DEF Next

(* While a process is critical, nobody else changes the ring or posts.     *)
LEMMA Alone ==
  ASSUME IInv, Good, NEW p \in Proc, Critical(p), NEW q \in Proc, Critical(q)
  PROVE  p = q
BY DEF IInv, GoodInv, MutualExclusion

(* Neither the ring nor what a process holds of it changes.                *)
LEMMA RingFrame ==
  ASSUME TypeOK, RingInv, Good, Good', NEW p \in Proc,
         \A q \in Proc \ {p} : pc'[q] = pc[q] /\ ptr'[q] = ptr[q],
         UNCHANGED <<names, front, rear>>,
         pc[p] # "copy", pc'[p] \notin {"copy", "advance"},
         pc'[p] = "walk" => ptr'[p] <= rear \/ Filled,
         pc'[p] = "name" => ptr'[p] < rear \/ Filled
  PROVE  RingInv'
<1>1. FirstRound => FirstRound' \/ Filled'
  BY DEF FirstRound, Filled
<1>2. Filled => Filled'
  BY DEF Filled
<1>3. /\ \A q \in Producers : /\ pc'[q] = "copy" => ptr'[q] = rear'
                              /\ pc'[q] = "advance" => names'[rear'] \in Item
      /\ \A c \in Consumers : pc'[c] = "advance" => ptr'[c] = front'
  BY DEF RingInv, Proc
<1>4. TornInv'
  BY DEF RingInv, TornInv, Proc
<1> QED BY <1>1, <1>2, <1>3, <1>4 DEF RingInv

(* Every step keeps the ring full of names between front and rear.         *)
LEMMA RingStep ==
  ASSUME IInv, CountInv, RingInv, [Next]_vars
  PROVE  RingInv'
<1> SUFFICES ASSUME Good' PROVE RingInv'
  BY DEF RingInv
<1> USE ProducerConsumerAssumption
<1>1. /\ TypeOK /\ pc \in [Proc -> ProducerPC \cup ConsumerPC]
      /\ ptr \in [Proc -> Slot] /\ names \in [Slot -> Item \cup {Zero, Torn}]
      /\ front \in Slot /\ rear \in Slot /\ BufferSize \in Nat
  BY DEF IInv, TypeOK
<1>2. ASSUME NEW p \in Producers, CreateData(p), order = "starting"
      PROVE  RingInv'
  <2>1. /\ \A q \in Proc : pc'[q] \in {"off", "prompt"}
        /\ front' = 0 /\ rear' = 0
    BY <1>2, GoodStart
  <2>2. FirstRound'
    BY <2>1 DEF FirstRound, Slot
  <2>3. TornInv'
    BY <1>2, GoodStart DEF TornInv
  <2> QED BY <2>1, <2>2, <2>3 DEF RingInv, Proc
<1>3. ASSUME Good PROVE RingInv'
  <2>1. CASE UNCHANGED vars
    BY <1>3, <2>1 DEF RingInv, Filled, FirstRound, TornInv, Good, vars, datavars
  <2>2. Filled \/ FirstRound
    BY <1>3 DEF RingInv
  <2>3. ASSUME NEW p \in Proc,
               \/ Quit(p) \/ AskPrint(p) \/ LookEmpty(p) \/ Peek(p) \/ Kill(p)
               \/ p \in Producers /\ (AskProduct(p) \/ WaitEmpty(p) \/ ProducerSync(p)
                                      \/ ProducerPostSync(p) \/ PostFull(p))
               \/ p \in Consumers /\ (Attach(p) \/ AskConsume(p) \/ WaitFull(p)
                                      \/ ConsumerSync(p) \/ PrintProduct(p)
                                      \/ ConsumerPostSync(p) \/ PostEmpty(p))
        PROVE  RingInv'
    <3> USE DEF Quit, AskPrint, LookEmpty, Peek, Kill, Good, PrintPC, AskProduct,
                WaitEmpty, ProducerSync,
                ProducerPostSync, PostFull, Attach, AskConsume, WaitFull,
                ConsumerSync, PrintProduct, ConsumerPostSync, PostEmpty, Goto,
                semvars, datavars
    <3>1. \A q \in Proc \ {p} : pc'[q] = pc[q] /\ ptr'[q] = ptr[q]
      BY <1>1, <2>3
    <3>2. /\ UNCHANGED <<names, front, rear>>
          /\ pc[p] # "copy" /\ pc'[p] \notin {"copy", "advance", "name"}
      BY <1>1, <1>3, <2>3
    <3>3. pc'[p] = "walk" => ptr'[p] = front
      BY <1>1, <2>3
    <3>4. FirstRound => front <= rear
      BY DEF FirstRound
    <3> HIDE DEF Quit, AskPrint, LookEmpty, Peek, Kill, Good, AskProduct, WaitEmpty,
                 ProducerSync,
                ProducerPostSync, PostFull, Attach, AskConsume, WaitFull,
                ConsumerSync, PrintProduct, ConsumerPostSync, PostEmpty
    <3> QED BY <1>1, <1>3, <2>2, <3>1, <3>2, <3>3, <3>4, RingFrame
  <2>4. ASSUME NEW p \in Proc, Walk(p) \/ PrintName(p) PROVE RingInv'
    <3>1. /\ \A q \in Proc \ {p} : pc'[q] = pc[q] /\ ptr'[q] = ptr[q]
          /\ UNCHANGED <<names, front, rear>>
          /\ pc[p] # "copy" /\ pc'[p] \notin {"copy", "advance"}
      BY <1>1, <2>4 DEF Walk, PrintName, Goto, datavars
    <3>2. pc'[p] = "walk" => pc[p] = "name" /\ ptr'[p] = NextSlot(ptr[p])
      BY <1>1, <2>4 DEF Walk, PrintName, Goto
    <3>3. pc'[p] = "walk" /\ FirstRound => ptr'[p] <= rear
      BY <1>1, <3>2 DEF FirstRound, NextSlot, Slot
    <3>4. pc'[p] = "name" => pc[p] = "walk" /\ ptr[p] # rear /\ ptr'[p] = ptr[p]
      BY <1>1, <2>4 DEF Walk, PrintName, Goto
    <3>5. pc'[p] = "name" /\ FirstRound => ptr'[p] < rear
      BY <1>1, <3>4 DEF FirstRound, Slot
    <3> QED BY <1>1, <1>3, <2>2, <3>1, <3>3, <3>5, RingFrame
  <2>5. ASSUME NEW p \in Producers, Write(p) PROVE RingInv'
    <3>1. /\ pc[p] = "write" /\ \A q \in Proc \ {p} : pc'[q] = pc[q] /\ ptr'[q] = ptr[q]
          /\ UNCHANGED <<front, rear>>
          /\ names'[rear] = HalfWritten(names[rear], input[p])
          /\ \A i \in Slot \ {rear} : names'[i] = names[i]
          /\ pc'[p] = "copy" /\ ptr'[p] = rear /\ p \in Proc /\ p \notin Consumers
      BY <1>1, <2>5 DEF Write, Goto, Proc
    <3>2. names[rear] # Zero => names'[rear] # Zero
      BY <3>1 DEF HalfWritten
    <3>3. Filled => Filled'
      BY <1>1, <3>1, <3>2 DEF Filled
    <3>4. FirstRound => FirstRound'
      <4>1. \A i \in Slot : i < rear => names'[i] = names[i]
        BY <1>1, <3>1 DEF Slot
      <4>2. \A q \in Proc : pc'[q] \in {"walk", "name"} =>
                             pc'[q] = pc[q] /\ ptr'[q] = ptr[q]
        BY <3>1
      <4> QED BY <3>1, <4>1, <4>2 DEF FirstRound
    <3>5. \A c \in Consumers : pc'[c] = "advance" => ptr'[c] = front'
      BY <1>3, <3>1 DEF RingInv, Proc
    <3>6. \A q \in Producers \ {p} : pc'[q] \notin {"copy", "advance"}
      BY <1>3, <3>1, Alone DEF Critical, Proc
    <3>7. TornInv'
      <4>1. \A q \in Producers \ {p} : pc[q] # "copy"
        BY <3>1, <3>6 DEF Proc
      <4>2. \A i \in Slot : names[i] # Torn
        BY <1>3, <3>1, <4>1 DEF RingInv, TornInv
      <4> QED BY <3>1, <4>2 DEF TornInv
    <3> QED BY <2>2, <3>1, <3>3, <3>4, <3>5, <3>6, <3>7 DEF RingInv
  <2>11. ASSUME NEW p \in Producers, Copy(p) PROVE RingInv'
    <3>1. /\ pc[p] = "copy" /\ \A q \in Proc \ {p} : pc'[q] = pc[q] /\ ptr'[q] = ptr[q]
          /\ UNCHANGED <<front, rear>> /\ names'[ptr[p]] = input[p]
          /\ \A i \in Slot \ {ptr[p]} : names'[i] = names[i]
          /\ pc'[p] = "advance" /\ p \in Proc /\ p \notin Consumers
      BY <1>1, <2>11 DEF Copy, Goto, Proc
    <3>2. ptr[p] = rear
      BY <1>3, <3>1 DEF RingInv
    <3>3. input[p] \in Item /\ Zero \notin Item /\ Torn \notin Item
      BY <1>1 DEF TypeOK
    <3>4. names'[rear] \in Item /\ names'[rear] # Zero
      BY <3>1, <3>2, <3>3
    <3>5. Filled => Filled'
      BY <1>1, <3>1, <3>2, <3>4 DEF Filled
    <3>6. FirstRound => FirstRound'
      BY <1>1, <3>1, <3>2 DEF FirstRound, Slot
    <3>7. \A c \in Consumers : pc'[c] = "advance" => ptr'[c] = front'
      BY <1>3, <3>1 DEF RingInv, Proc
    <3>8. \A q \in Producers \ {p} : pc'[q] \notin {"copy", "advance"}
      BY <1>3, <3>1, Alone DEF Critical, Proc
    <3>9. TornInv'
      <4>1. \A i \in Slot : names[i] = Torn => i = ptr[p]
        <5>1. \A q \in Producers : pc[q] = "copy" => q = p
          BY <3>1, <3>8 DEF Proc
        <5> QED BY <1>3, <5>1 DEF RingInv, TornInv
      <4> QED BY <3>1, <3>3, <4>1 DEF TornInv
    <3> QED BY <2>2, <3>1, <3>4, <3>5, <3>6, <3>7, <3>8, <3>9 DEF RingInv
  <2>6. ASSUME NEW p \in Producers, AdvanceRear(p) PROVE RingInv'
    <3>1. /\ pc[p] = "advance" /\ \A q \in Proc \ {p} : pc'[q] = pc[q]
          /\ UNCHANGED <<names, front, ptr>> /\ rear' = NextSlot(rear)
          /\ pc'[p] = "post_sync" /\ p \in Proc /\ p \notin Consumers
      BY <1>1, <2>6 DEF AdvanceRear, Goto, Proc
    <3>2. names[rear] # Zero
      BY <1>3, <3>1 DEF RingInv
    <3>7. TornInv'
      BY <1>3, <3>1 DEF RingInv, TornInv
    <3>3. Filled => Filled'
      BY <3>1 DEF Filled
    <3>4. FirstRound => FirstRound' \/ Filled'
      <4>1. CASE rear = BufferSize
        BY <1>1, <3>1, <3>2, <4>1 DEF FirstRound, Filled, Slot
      <4>2. CASE rear # BufferSize
        <5>1. rear' = rear + 1
          BY <3>1, <4>2 DEF NextSlot
        <5>2. ASSUME FirstRound PROVE FirstRound'
          <6>1. \A i \in Slot : i < rear' => names'[i] # Zero
            BY <1>1, <3>1, <3>2, <5>1, <5>2 DEF FirstRound, Slot
          <6>2. \A q \in Proc : /\ pc'[q] = "walk" => ptr'[q] <= rear'
                                /\ pc'[q] = "name" => ptr'[q] < rear'
            BY <1>1, <3>1, <5>1, <5>2 DEF FirstRound, Slot
          <6> QED BY <1>1, <3>1, <5>1, <5>2, <6>1, <6>2 DEF FirstRound, Slot
        <5> QED BY <5>2
      <4> QED BY <4>1, <4>2
    <3>5. \A q \in Producers : pc'[q] \notin {"copy", "advance"}
      BY <1>3, <3>1, Alone DEF Critical, Proc
    <3>6. \A c \in Consumers : pc'[c] = "advance" => ptr'[c] = front'
      BY <1>3, <3>1 DEF RingInv, Proc
    <3> QED BY <2>2, <3>3, <3>4, <3>5, <3>6, <3>7 DEF RingInv
  <2>7. ASSUME NEW c \in Consumers, Take(c) PROVE RingInv'
    <3>1. /\ \A q \in Proc \ {c} : pc'[q] = pc[q] /\ ptr'[q] = ptr[q]
          /\ UNCHANGED <<names, front, rear>>
          /\ ptr'[c] = front /\ pc'[c] = "advance" /\ c \in Proc /\ c \notin Producers
      BY <1>1, <2>7 DEF Take, Goto, datavars, Proc
    <3>2. (Filled => Filled') /\ (FirstRound => FirstRound')
      BY <3>1 DEF Filled, FirstRound
    <3>3. TornInv'
      BY <1>3, <3>1 DEF RingInv, TornInv, Proc
    <3> QED BY <1>3, <2>2, <3>1, <3>2, <3>3 DEF RingInv, Proc
  <2>8. ASSUME NEW c \in Consumers, AdvanceFront(c) PROVE RingInv'
    <3>1. /\ pc[c] = "advance" /\ \A q \in Proc \ {c} : pc'[q] = pc[q]
          /\ UNCHANGED <<names, rear, ptr>> /\ front' = NextSlot(front)
          /\ pc'[c] = "print" /\ c \in Proc /\ c \notin Producers
      BY <1>1, <2>8 DEF AdvanceFront, Goto, Proc
    <3>2. Used > 0
      <4>1. At(Consumers, Taking) > 0
        BY <1>3, <3>1, AtType DEF CountInv, Taking
      <4>2. At(Consumers, Taking) \in Nat /\ At(Producers, Delivering) \in Nat
        BY <1>3, AtType DEF CountInv
      <4>3. full + At(Consumers, Taking) + At(Producers, Delivering) = Used
        BY <1>3, Equations DEF CountInv
      <4>4. full \in Nat /\ Used \in Int
        BY <1>1, UsedFacts DEF TypeOK
      <4> QED BY <4>1, <4>2, <4>3, <4>4
    <3>3. FirstRound => FirstRound'
      BY <1>1, <3>1, <3>2 DEF FirstRound, Used, NextSlot, Slot
    <3>4. Filled => Filled'
      BY <3>1 DEF Filled
    <3>5. \A d \in Consumers : pc'[d] # "advance"
      BY <1>3, <3>1, Alone DEF Critical, Proc
    <3>6. \A q \in Producers : /\ pc'[q] = "copy" => ptr'[q] = rear'
                               /\ pc'[q] = "advance" => names'[rear'] \in Item
      BY <1>3, <3>1 DEF RingInv, Proc
    <3>7. TornInv'
      BY <1>3, <3>1 DEF RingInv, TornInv, Proc
    <3> QED BY <2>2, <3>3, <3>4, <3>5, <3>6, <3>7 DEF RingInv
  <2>9. ASSUME NEW p \in Producers, InitSync(p) \/ InitFull(p) \/ InitEmpty(p)
        PROVE  RingInv'
    BY <1>3, <2>9 DEF IInv, GoodInv, InitSync, InitFull, InitEmpty, Goto, InitPC, Proc
  <2>10. Producers \subseteq Proc /\ Consumers \subseteq Proc
    BY DEF Proc
  <2> QED BY <1>1, <1>3, <2>1, <2>3, <2>4, <2>5, <2>6, <2>7, <2>8, <2>9, <2>10,
             <2>11, GoodSteps DEF Product, Consume, PrintShareData
<1> QED BY <1>2, <1>3, GoodBegins

-----------------------------------------------------------------------------
PoolInv == IInv /\ CountInv /\ OutInv /\ RingInv

(* The inductive invariant of the pool.                                    *)
LEMMA PoolInvariance == Spec => []PoolInv
<1>1. Init => PoolInv
  <2>1. Init => ~Good /\ OutInv
    BY DEF Init, Good, OutInv
  <2> QED BY <2>1, InitIInv DEF PoolInv, CountInv, RingInv
<1>2. PoolInv /\ [Next]_vars => PoolInv'
  <2> SUFFICES ASSUME PoolInv, [Next]_vars PROVE PoolInv' OBVIOUS
  <2>1. TypeOK
    BY DEF PoolInv, IInv
  <2> QED BY <2>1, NextIInv, CountStep, OutStep, RingStep DEF PoolInv
<1> QED BY <1>1, <1>2, PTL DEF Spec

(* empty and full account for the ring and for everybody under way, from a *)
(* good start until the pool is disturbed (producer.c:15-22,               *)
(* consumer.c:14-25).                                                      *)
THEOREM SlotsCounted == Spec => []SlotAccounting
<1>1. PoolInv => SlotAccounting
  BY DEF PoolInv, CountInv, SlotAccounting
<1> QED BY <1>1, PoolInvariance, PTL

(* printShareData takes no semaphore (util.c:37-41): while it prints a     *)
(* slot, that slot is never an unwritten one of the new file, and what it  *)
(* prints of it is a name, or two names mixed if a producer is in its      *)
(* memcpy (producer.c:17) to this very slot.                               *)
THEOREM PeekSeesNames == Spec => []PeekReadsNames
<1>1. PoolInv => PeekReadsNames
  BY DEF PoolInv, IInv, TypeOK, RingInv, Filled, FirstRound, TornInv, PeekReadsNames,
         Slot
<1> QED BY <1>1, PoolInvariance, PTL

(* No producer writes into the slot whose address a consumer holds.        *)
LEMMA KeptStep ==
  ASSUME PoolInv, [Next]_vars, NEW c \in Consumers, Good,
         pc[c] \in {"advance", "print"}, order' = "good"
  PROVE  names' = names
<1>1. CASE UNCHANGED vars
  BY <1>1 DEF vars, datavars
<1>2. ASSUME NEW p \in Producers, Write(p) \/ Copy(p) PROVE FALSE
  <2>1. Critical(p) /\ Critical(c) /\ p \in Proc /\ c \in Proc /\ p # c
    BY <1>2, ProducerConsumerAssumption DEF Critical, Write, Copy, Goto, Proc
  <2> QED BY <2>1, Alone DEF PoolInv
<1>3. CASE Next
  <2>1. TypeOK /\ Good'
    BY DEF PoolInv, IInv, Good
  <2>2. ASSUME NEW p \in Producers, AskProduct(p) \/ Product(p) PROVE names' = names
    BY <1>2, <2>2 DEF AskProduct, Product, WaitEmpty, ProducerSync, AdvanceRear,
                      ProducerPostSync, PostFull, datavars
  <2>3. ASSUME NEW d \in Consumers, Attach(d) \/ AskConsume(d) \/ Consume(d)
        PROVE  names' = names
    BY <2>3 DEF Attach, AskConsume, Consume, WaitFull, ConsumerSync, Take,
                AdvanceFront, PrintProduct, ConsumerPostSync, PostEmpty, datavars
  <2>4. ASSUME NEW p \in Proc,
               Quit(p) \/ PrintShareData(p) \/ Kill(p)
        PROVE  names' = names
    BY <2>4 DEF Quit, PrintShareData, AskPrint, LookEmpty, Peek, Walk, PrintName,
                Kill, datavars
  <2>5. ASSUME NEW p \in Producers, InitSync(p) \/ InitFull(p) \/ InitEmpty(p)
        PROVE  names' = names
    BY <2>5 DEF InitSync, InitFull, InitEmpty, datavars
  <2> QED BY <1>3, <2>1, <2>2, <2>3, <2>4, <2>5, GoodSteps
<1> QED BY <1>1, <1>3

(* consume prints from the shared slot after it has moved front: the name  *)
(* is still the one it took, since sync is posted after the print          *)
(* (consumer.c:17-23).                                                     *)
THEOREM NameKept == Spec => SlotKeptUntilPrinted
<1>1. ASSUME PoolInv, [Next]_vars
      PROVE  \A c \in Consumers :
               Good /\ pc[c] \in {"advance", "print"} /\ order' = "good"
                 => names'[ptr[c]] = names[ptr[c]]
  BY <1>1, KeptStep
<1>2. PoolInv /\ [Next]_vars =>
        [\A c \in Consumers :
           Good /\ pc[c] \in {"advance", "print"} /\ order' = "good"
             => names'[ptr[c]] = names[ptr[c]]]_vars
  BY <1>1
<1> QED BY <1>2, PoolInvariance, PTL DEF Spec, SlotKeptUntilPrinted

-----------------------------------------------------------------------------
(* The ring as a queue                                                     *)

(* The remainder, opaque to the arithmetic of the provers.                 *)
Rem(a, n) == a % n

LEMMA Wrap ==
  \A a \in Nat, n \in Nat \ {0} :
    a < n + n => Rem(a, n) = IF a < n THEN a ELSE a - n
BY DEF Rem

(* Around the ring once: the index of the name number k from slot f.       *)
LEMMA WrapSlot ==
  ASSUME NEW f \in Slot, NEW k \in 1 .. BufferSize
  PROVE  (f + k - 1) % (BufferSize + 1) =
           IF f + k <= BufferSize + 1 THEN f + k - 1 ELSE (f + k - 1) - (BufferSize + 1)
<1> DEFINE a == f + k - 1
           n == BufferSize + 1
<1>1. f \in 0 .. BufferSize /\ BufferSize \in Nat
  BY ProducerConsumerAssumption DEF Slot
<1>2. a \in Nat /\ n \in Nat \ {0} /\ a < n + n
  BY <1>1
<1>3. Rem(a, n) = IF a < n THEN a ELSE a - n
  <2> HIDE DEF a, n
  <2> QED BY <1>2, Wrap
<1>4. a < n <=> f + k <= BufferSize + 1
  BY <1>1
<1>5. a % n = IF f + k <= BufferSize + 1 THEN a ELSE a - n
  <2> HIDE DEF a, n
  <2> QED BY <1>3, <1>4 DEF Rem
<1> QED BY <1>5

(* The slot of the name number i of the queue.                             *)
Place(i) == IF front + i <= BufferSize + 1 THEN front + i - 1
            ELSE (front + i - 1) - (BufferSize + 1)

(* The queue, as the names at its places in the ring.                      *)
LEMMA ContentsFacts ==
  TypeOK =>
         /\ Used \in Nat /\ Used <= BufferSize
         /\ Contents = [i \in 1 .. Used |-> names[Place(i)]]
         /\ \A i \in 1 .. Used : Place(i) \in Slot /\ Place(i) # rear
         /\ Place(1) = front /\ Place(Used + 1) = rear
         /\ Contents \in Seq(Item \cup {Zero, Torn}) /\ Len(Contents) = Used
<1> SUFFICES ASSUME TypeOK
    PROVE  /\ Used \in Nat /\ Used <= BufferSize
           /\ Contents = [i \in 1 .. Used |-> names[Place(i)]]
           /\ \A i \in 1 .. Used : Place(i) \in Slot /\ Place(i) # rear
           /\ Place(1) = front /\ Place(Used + 1) = rear
           /\ Contents \in Seq(Item \cup {Zero, Torn}) /\ Len(Contents) = Used
  OBVIOUS
<1> USE ProducerConsumerAssumption
<1>1. /\ Used \in 0 .. BufferSize /\ front \in Slot /\ rear \in Slot
      /\ names \in [Slot -> Item \cup {Zero, Torn}] /\ BufferSize \in Nat
  BY UsedFacts DEF TypeOK
<1>2. ASSUME NEW i \in 1 .. Used
      PROVE  (front + i - 1) % (BufferSize + 1) = Place(i)
  BY <1>1, <1>2, WrapSlot DEF Place
<1>3. \A i \in 1 .. Used : Place(i) \in Slot /\ Place(i) # rear
  BY <1>1 DEF Place, Slot, Used
<1>4. Place(1) = front /\ Place(Used + 1) = rear
  BY <1>1 DEF Place, Slot, Used
<1>5. Contents = [i \in 1 .. Used |-> names[Place(i)]]
  BY <1>2 DEF Contents
<1>6. Contents \in [1 .. Used -> Item \cup {Zero, Torn}]
  BY <1>1, <1>3, <1>5
<1>7. Contents \in Seq(Item \cup {Zero, Torn}) /\ Len(Contents) = Used
  BY <1>1, <1>6
<1> QED BY <1>1, <1>3, <1>4, <1>5, <1>7

(* The same in the next state.                                             *)
LEMMA ContentsNext ==
  TypeOK' => (Contents = [i \in 1 .. Used |-> names[Place(i)]])'
<1>1. TypeOK => Contents = [i \in 1 .. Used |-> names[Place(i)]]
  BY ContentsFacts
<1> QED BY <1>1, PTL

(* What the queue becomes when rear, front or a free slot is written.      *)
LEMMA ContentsPut ==
  ASSUME TypeOK, TypeOK', Used < BufferSize,
         rear' = NextSlot(rear), front' = front, names' = names
  PROVE  Contents' = Append(Contents, names[rear])
<1>1. Used' = Used + 1
  BY UsedFacts DEF TypeOK
<1>2. /\ Used \in Nat /\ Len(Contents) = Used
      /\ Contents \in Seq(Item \cup {Zero, Torn})
      /\ Contents = [i \in 1 .. Used |-> names[Place(i)]] /\ Place(Used + 1) = rear
  BY ContentsFacts
<1>3. (Contents = [i \in 1 .. Used |-> names[Place(i)]])'
  BY ContentsNext
<1>4. \A i : Place(i)' = Place(i)
  BY DEF Place
<1>5. Contents' = [i \in 1 .. Used + 1 |-> names[Place(i)]]
  BY <1>1, <1>3, <1>4
<1>6. Append(Contents, names[rear])
        = [i \in 1 .. Used + 1 |-> IF i <= Used THEN Contents[i] ELSE names[rear]]
  BY <1>2
<1> QED BY <1>2, <1>5, <1>6

LEMMA ContentsGet ==
  ASSUME TypeOK, TypeOK', Used > 0,
         front' = NextSlot(front), rear' = rear, names' = names
  PROVE  Contents # <<>> /\ Head(Contents) = names[front] /\ Contents' = Tail(Contents)
<1>1. Used' = Used - 1
  BY UsedFacts DEF TypeOK
<1>2. /\ Used \in Nat /\ Len(Contents) = Used
      /\ Contents \in Seq(Item \cup {Zero, Torn})
      /\ Contents = [i \in 1 .. Used |-> names[Place(i)]] /\ Place(1) = front
  BY ContentsFacts
<1>3. (Contents = [i \in 1 .. Used |-> names[Place(i)]])'
  BY ContentsNext
<1>4. \A i \in 1 .. Used - 1 : Place(i)' = Place(i + 1)
  <2>1. /\ front \in 0 .. BufferSize /\ BufferSize \in Nat
        /\ front' = IF front = BufferSize THEN 0 ELSE front + 1
        /\ Used - 1 <= BufferSize
    BY ContentsFacts, ProducerConsumerAssumption DEF TypeOK, Slot, NextSlot
  <2>2. \A i : Place(i)' = IF front' + i <= BufferSize + 1 THEN front' + i - 1
                          ELSE (front' + i - 1) - (BufferSize + 1)
    BY DEF Place
  <2> QED BY <1>2, <2>1, <2>2 DEF Place
<1>5. Contents' = [i \in 1 .. Used - 1 |-> names[Place(i + 1)]]
  BY <1>1, <1>3, <1>4
<1>6. Tail(Contents) = [i \in 1 .. Used - 1 |-> Contents[i + 1]]
  BY <1>2
<1>7. \A i \in 1 .. Used - 1 : Contents[i + 1] = names[Place(i + 1)]
  BY <1>2
<1>8. Contents # <<>> /\ Head(Contents) = names[front]
  BY <1>2
<1> QED BY <1>5, <1>6, <1>7, <1>8

LEMMA ContentsFrame ==
  ASSUME TypeOK, TypeOK', front' = front, rear' = rear,
         \A i \in Slot \ {rear} : names'[i] = names[i]
  PROVE  Contents' = Contents
<1>1. Used' = Used
  BY UsedFacts DEF TypeOK
<1>2. /\ Contents = [i \in 1 .. Used |-> names[Place(i)]]
      /\ \A i \in 1 .. Used : Place(i) \in Slot /\ Place(i) # rear
  BY ContentsFacts
<1>3. (Contents = [i \in 1 .. Used |-> names[Place(i)]])'
  BY ContentsNext
<1>4. \A i : Place(i)' = Place(i)
  BY DEF Place
<1> QED BY <1>1, <1>2, <1>3, <1>4

-----------------------------------------------------------------------------
(* The refinement of BoundedBuffer, from a good state to a good one        *)

(* A step that leaves the names and what was taken alone is a stutter.     *)
LEMMA QueueFrame ==
  ASSUME TypeOK, TypeOK', Good, Good', Contents' = Contents, Taken' = Taken
  PROVE  UNCHANGED Pool!bufvars
BY DEF Pool!bufvars, Good

(* What a consumer has taken depends on its own steps and on the slot it   *)
(* has yet to print.                                                       *)
LEMMA TakenOfOthers ==
  ASSUME PoolInv, [Next]_vars, Good, Good', NEW c \in Consumers,
         pc'[c] = pc[c], ptr'[c] = ptr[c], out'[c] = out[c]
  PROVE  Taken'[c] = Taken[c]
<1>1. pc[c] = "print" => names' = names
  BY KeptStep DEF Good
<1> QED BY <1>1 DEF Taken

(* A producer puts a name when it moves rear, and stutters elsewhere.      *)
LEMMA ProducerFifoStep ==
  ASSUME PoolInv, PoolInv', [Next]_vars, Good, Good', NEW p \in Producers,
         AskProduct(p) \/ Product(p)
  PROVE  [Pool!BufNext]_(Pool!bufvars)
<1>1. /\ TypeOK /\ TypeOK' /\ pc \in [Proc -> ProducerPC \cup ConsumerPC]
      /\ p \in Proc /\ p \notin Consumers /\ Consumers \subseteq Proc
  BY ProducerConsumerAssumption DEF PoolInv, IInv, TypeOK, Proc
<1>2. /\ \A q \in Proc \ {p} : pc'[q] = pc[q]
      /\ \A q \in Proc \ {p} : ptr'[q] = ptr[q]
      /\ UNCHANGED <<out, front>>
  BY <1>1 DEF TypeOK, AskProduct, Product, WaitEmpty, ProducerSync, Write, Copy,
              AdvanceRear, ProducerPostSync, PostFull, Goto, semvars, datavars
<1>3. \A c \in Consumers : Taken'[c] = Taken[c]
  BY <1>1, <1>2, TakenOfOthers
<1>4. Taken' = Taken
  BY <1>3 DEF Taken
<1>5. CASE AdvanceRear(p)
  <2>1. pc[p] = "advance" /\ rear' = NextSlot(rear) /\ names' = names
    BY <1>5 DEF AdvanceRear, Goto
  <2>2. names[rear] \in Item
    BY <2>1 DEF PoolInv, RingInv
  <2>3. Used < BufferSize
    <3>1. At(Producers, Filling) > 0 /\ At(Producers, Filling) \in Nat
      BY <2>1, AtType DEF PoolInv, CountInv, Filling
    <3>2. At(Consumers, Releasing) \in Nat
      BY AtType DEF PoolInv, CountInv
    <3>3. empty + At(Producers, Filling) + At(Consumers, Releasing)
            = BufferSize - Used
      BY Equations DEF PoolInv, CountInv
    <3>4. empty \in Nat /\ Used \in Int /\ BufferSize \in Nat
      BY <1>1, UsedFacts, ProducerConsumerAssumption DEF TypeOK
    <3> QED BY <3>1, <3>2, <3>3, <3>4
  <2>4. Contents' = Append(Contents, names[rear])
    BY <1>1, <1>2, <2>1, <2>3, ContentsPut
  <2>5. Len(Contents) < BufferSize
    BY <1>1, <2>3, ContentsFacts
  <2>6. Pool!Put(names[rear])
    BY <1>4, <2>4, <2>5 DEF Pool!Put, Good
  <2> QED BY <2>2, <2>6 DEF Pool!BufNext
<1>6. CASE ~AdvanceRear(p)
  <2>1. rear' = rear /\ \A i \in Slot \ {rear} : names'[i] = names[i]
    <3>1. Copy(p) => ptr[p] = rear
      BY DEF PoolInv, RingInv, Copy, Goto
    <3> QED BY <1>1, <1>6, <3>1
               DEF TypeOK, AskProduct, Product, WaitEmpty, ProducerSync, Write,
                   Copy, ProducerPostSync, PostFull, datavars
  <2>2. Contents' = Contents
    BY <1>1, <1>2, <2>1, ContentsFrame
  <2> QED BY <1>1, <1>4, <2>2, QueueFrame
<1> QED BY <1>5, <1>6

(* A consumer gets a name when it moves front, forgets it when it lets     *)
(* sync go, and stutters elsewhere.                                        *)
LEMMA ConsumerFifoStep ==
  ASSUME PoolInv, PoolInv', [Next]_vars, Good, Good', NEW c \in Consumers,
         Attach(c) \/ AskConsume(c) \/ Consume(c)
  PROVE  [Pool!BufNext]_(Pool!bufvars)
<1>1. /\ TypeOK /\ TypeOK' /\ pc \in [Proc -> ProducerPC \cup ConsumerPC]
      /\ ptr \in [Proc -> Slot] /\ out \in [Consumers -> Item \cup {Zero, Torn, Unset}]
      /\ c \in Proc /\ Consumers \subseteq Proc
  BY DEF PoolInv, IInv, TypeOK, Proc
<1>2. /\ \A q \in Proc \ {c} : pc'[q] = pc[q] /\ ptr'[q] = ptr[q]
      /\ \A d \in Consumers \ {c} : out'[d] = out[d]
      /\ UNCHANGED <<names, rear>>
  BY <1>1 DEF Attach, AskConsume, Consume, WaitFull, ConsumerSync, Take,
              AdvanceFront, PrintProduct, ConsumerPostSync, PostEmpty, Goto,
              semvars, datavars
<1>3. \A d \in Consumers \ {c} : Taken'[d] = Taken[d]
  BY <1>1, <1>2, TakenOfOthers
<1>4. /\ Taken \in [Consumers -> Item \cup {Zero, Torn, Unset}]
      /\ DOMAIN Taken' = Consumers
      /\ Taken' = [d \in Consumers |-> Taken'[d]]
  BY <1>1 DEF Taken, TypeOK
<1>5. CASE AdvanceFront(c)
  <2>1. /\ pc[c] = "advance" /\ pc'[c] = "print" /\ front' = NextSlot(front)
        /\ ptr' = ptr
    BY <1>1, <1>5 DEF AdvanceFront, Goto
  <2>2. Used > 0
    <3>1. At(Consumers, Taking) > 0 /\ At(Consumers, Taking) \in Nat
      BY <2>1, AtType DEF PoolInv, CountInv, Taking
    <3>2. At(Producers, Delivering) \in Nat
      BY AtType DEF PoolInv, CountInv
    <3>3. full + At(Consumers, Taking) + At(Producers, Delivering) = Used
      BY Equations DEF PoolInv, CountInv
    <3>4. full \in Nat /\ Used \in Int
      BY <1>1, UsedFacts DEF TypeOK
    <3> QED BY <3>1, <3>2, <3>3, <3>4
  <2>3. Contents # <<>> /\ Head(Contents) = names[front] /\ Contents' = Tail(Contents)
    BY <1>1, <1>2, <2>1, <2>2, ContentsGet
  <2>4. Taken'[c] = names[front]
    BY <1>2, <2>1 DEF Taken, PoolInv, RingInv
  <2>5. Taken' = [Taken EXCEPT ![c] = Head(Contents)]
    BY <1>3, <1>4, <2>3, <2>4
  <2>6. Pool!Get(c)
    BY <2>3, <2>5 DEF Pool!Get, Good
  <2> QED BY <2>6 DEF Pool!BufNext
<1>6. CASE ~AdvanceFront(c)
  <2>1. front' = front
    BY <1>6 DEF Attach, AskConsume, Consume, WaitFull, ConsumerSync, Take,
                PrintProduct, ConsumerPostSync, PostEmpty, datavars
  <2>2. Contents' = Contents
    BY <1>1, <1>2, <2>1, ContentsFrame
  <2>3. CASE ConsumerPostSync(c)
    <3>1. Taken'[c] = Unset
      BY <1>1, <2>3 DEF Taken, ConsumerPostSync, Goto
    <3>2. Taken' = [Taken EXCEPT ![c] = Unset]
      BY <1>3, <1>4, <3>1
    <3>3. Pool!Forget(c)
      BY <2>2, <3>2 DEF Pool!Forget, Good
    <3> QED BY <3>3 DEF Pool!BufNext
  <2>4. CASE ~ConsumerPostSync(c)
    <3>1. PrintProduct(c) => Taken'[c] = Taken[c]
      BY <1>1 DEF Taken, PrintProduct, Goto
    <3>2. ~PrintProduct(c) => /\ pc[c] # "print" /\ pc'[c] # "print"
                              /\ out' = out
      BY <1>1, <1>6, <2>4 DEF Attach, AskConsume, Consume, WaitFull,
           ConsumerSync, Take, PostEmpty, Goto
    <3>3. Taken'[c] = Taken[c]
      BY <3>1, <3>2 DEF Taken
    <3>4. Taken' = Taken
      BY <1>3, <1>4, <3>3
    <3> QED BY <1>1, <2>2, <3>4, QueueFrame
  <2> QED BY <2>3, <2>4
<1> QED BY <1>5, <1>6

(* Leaving, walking the ring and being killed while waiting change         *)
(* nothing.                                                                *)
LEMMA UserFifoStep ==
  ASSUME PoolInv, PoolInv', [Next]_vars, Good, Good', NEW p \in Proc,
         Quit(p) \/ PrintShareData(p) \/ Kill(p)
  PROVE  [Pool!BufNext]_(Pool!bufvars)
<1>1. /\ TypeOK /\ TypeOK' /\ pc \in [Proc -> ProducerPC \cup ConsumerPC]
      /\ out \in [Consumers -> Item \cup {Zero, Torn, Unset}]
      /\ Consumers \subseteq Proc
  BY DEF PoolInv, IInv, TypeOK, Proc
<1>2. /\ \A q \in Proc \ {p} : pc'[q] = pc[q] /\ ptr'[q] = ptr[q]
      /\ \A d \in Consumers \ {p} : out'[d] = out[d]
      /\ UNCHANGED <<names, front, rear>>
  BY <1>1 DEF TypeOK, Quit, PrintShareData, AskPrint, LookEmpty, Peek, Walk,
              PrintName, Kill, Goto, semvars, datavars
<1>3. \A d \in Consumers \ {p} : Taken'[d] = Taken[d]
  BY <1>1, <1>2, TakenOfOthers
<1>4. pc[p] \notin {"print", "post_sync"} /\ pc'[p] \notin {"print", "post_sync"}
  BY <1>1 DEF Quit, PrintShareData, AskPrint, LookEmpty, Peek, Walk, PrintName, Kill,
              PrintPC, Goto, Good
<1>5. p \in Consumers => Taken'[p] = Taken[p]
  BY <1>4 DEF Taken, PoolInv, OutInv
<1>6. Taken' = Taken
  BY <1>3, <1>5 DEF Taken
<1>7. Contents' = Contents
  BY <1>1, <1>2, ContentsFrame
<1> QED BY <1>1, <1>6, <1>7, QueueFrame

(* The length of the queue in the next state.                              *)
LEMMA ContentsLen ==
  TypeOK' => (Contents \in Seq(Item \cup {Zero, Torn}) /\ Len(Contents) = Used)'
<1>1. TypeOK => Contents \in Seq(Item \cup {Zero, Torn}) /\ Len(Contents) = Used
  BY ContentsFacts
<1> QED BY <1>1, PTL

(* Every step is a step of the queue or a stutter.                         *)
LEMMA FifoStep ==
  ASSUME PoolInv, PoolInv', [Next]_vars
  PROVE  [Pool!BufNext]_(Pool!bufvars)
<1>1. TypeOK /\ TypeOK'
  BY DEF PoolInv, IInv
<1>2. CASE ~Good /\ ~Good'
  <2>1. Good' = Good
    BY <1>2 DEF Good
  <2>2. (IF Good THEN Contents ELSE <<>>)' = (IF Good THEN Contents ELSE <<>>)
    BY <1>2
  <2>3. (IF Good THEN Taken ELSE [c \in Consumers |-> Unset])'
          = (IF Good THEN Taken ELSE [c \in Consumers |-> Unset])
    BY <1>2
  <2> QED BY <2>1, <2>2, <2>3 DEF Pool!bufvars
<1>3. CASE Good /\ ~Good'
  <2>1. Pool!Disturb
    BY <1>3 DEF Pool!Disturb
  <2> QED BY <2>1 DEF Pool!BufNext
<1>4. CASE ~Good /\ Good'
  <2>1. PICK p \in Producers : CreateData(p) /\ order = "starting"
    BY <1>4, GoodBegins
  <2>2. /\ \A q \in Proc : pc'[q] \in {"off", "prompt"}
        /\ front' = 0 /\ rear' = 0
    BY <2>1, GoodStart DEF PoolInv
  <2>3. Contents' = <<>>
    <3>1. Used' = 0
      BY <2>2 DEF Used
    <3> QED BY <1>1, <3>1, ContentsLen
  <2>4. Taken' = [c \in Consumers |-> Unset]
    BY <2>2 DEF Taken, PoolInv, OutInv, Proc
  <2>5. Pool!Start
    BY <1>4, <2>3, <2>4 DEF Pool!Start
  <2> QED BY <2>5 DEF Pool!BufNext
<1>5. CASE Good /\ Good'
  <2>1. CASE UNCHANGED vars
    <3>1. Contents' = Contents /\ Taken' = Taken
      BY <2>1 DEF vars, datavars, Contents, Used, Taken
    <3> QED BY <1>1, <1>5, <3>1, QueueFrame
  <2>2. CASE Next
    <3>1. \A p \in Producers : ~(InitSync(p) \/ InitFull(p) \/ InitEmpty(p))
      BY <1>5 DEF PoolInv, IInv, GoodInv, InitSync, InitFull, InitEmpty, Goto,
                  InitPC, Proc
    <3> QED BY <1>1, <1>5, <2>2, <3>1, GoodSteps, ProducerFifoStep,
               ConsumerFifoStep, UserFifoStep
  <2> QED BY <2>1, <2>2
<1> QED BY <1>2, <1>3, <1>4, <1>5

(* From a good start of a producer until the pool is disturbed, the ring,  *)
(* the two indices and the three semaphores are a first-in first-out queue *)
(* of at most BUFFER_SIZE names: product and consume, of however many      *)
(* processes, are one step each (producer.c:14, consumer.c:13).            *)
THEOREM ImplementsBuffer == Spec => PoolIsFifo
<1>1. Init => Pool!BufInit
  BY DEF Init, Pool!BufInit, Good
<1>2. PoolInv /\ PoolInv' /\ [Next]_vars => [Pool!BufNext]_(Pool!bufvars)
  BY FifoStep
<1> QED BY <1>1, <1>2, PoolInvariance, PTL DEF Spec, PoolIsFifo, Pool!BufSpec
=============================================================================
