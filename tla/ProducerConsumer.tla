------------------------- MODULE ProducerConsumer --------------------------
(***************************************************************************)
(* lab-05/Producer-Consumer: producer.c and consumer.c share a ring of     *)
(* names and three process-shared semaphores in two mmapped files.  A      *)
(* producer creates (truncates) the files and initialises the semaphores,  *)
(* a consumer attaches to whatever it finds.  Processes are started, asked *)
(* to produce, to consume or to print ("pd"), and ended by their users in  *)
(* any order, or killed at any step; order says whether that was done in a *)
(* way the program copes with.                                             *)
(***************************************************************************)
EXTENDS Naturals, Sequences, FiniteSets

CONSTANTS
  Producers,    \* runs of producer.out that exist at the same time
  Consumers,    \* runs of consumer.out
  Item,         \* the names that can be typed
  Empty,        \* the empty name: what input_buffer holds at first
  Zero,         \* a slot of a new file that no producer has written whole yet
  Torn,         \* a name half of which is that of another
  Unset,        \* no name consumed yet
  BufferSize    \* BUFFER_SIZE

ASSUME ProducerConsumerAssumption ==
  /\ Producers \cap Consumers = {}
  /\ Empty \in Item
  /\ Zero \notin Item /\ Unset \notin Item /\ Torn \notin Item \cup {Zero}
  /\ BufferSize \in Nat \ {0}

Proc == Producers \cup Consumers
Slot == 0 .. BufferSize

VARIABLES
  sync, empty, full,    \* the values of the semaphores in SEMAPHORE_FILE
  names, front, rear,   \* People, in DATA_FILE
  pc,
  input,                \* input_buffer of each producer
  ptr,                  \* where memcpy writes, product of a consumer, and the
                        \* front that printShareData has read, then its i
  out,                  \* the name a consumer has just printed
  order                 \* history: "starting", "good" or "broken", see Disturb

semvars == <<sync, empty, full>>
datavars == <<names, front, rear>>
vars == <<semvars, datavars, pc, input, ptr, out, order>>

(* Variant with a bug: the index does not wrap.                            *)
NextSlot_NoWrap(i) == i + 1

NextSlot(i) == IF i = BufferSize THEN 0 ELSE i + 1

Goto(p, from, to) == pc[p] = from /\ pc' = [pc EXCEPT ![p] = to]

(* Before its producer has set the pool up, it must be left alone.         *)
Early == order' = IF order = "starting" THEN "broken" ELSE order

(* No process runs and the files are new: semaphores and ring are zero.    *)
Init ==
  /\ sync = 0 /\ empty = 0 /\ full = 0
  /\ names = [i \in Slot |-> Zero] /\ front = 0 /\ rear = 0
  /\ pc = [p \in Proc |-> "off"]
  /\ input = [p \in Producers |-> Empty]
  /\ ptr = [p \in Proc |-> 0]
  /\ out = [c \in Consumers |-> Unset]
  /\ order = "broken"

-----------------------------------------------------------------------------
(* shareInit                                                               *)

(* open with O_TRUNC and ftruncate of the semaphore file: its values are   *)
(* zero.  When mmap fails then, the program ends.  It is a good start when *)
(* every other process is off or waits for its user.                       *)
CreateSem(p) ==
  /\ \/ /\ Goto(p, "off", "init_sync")
        /\ order' = IF \A q \in Proc \ {p} : pc[q] \in {"off", "prompt"}
                    THEN "starting" ELSE "broken"
     \/ pc[p] = "off" /\ UNCHANGED pc /\ order' = "broken"
  /\ sync' = 0 /\ empty' = 0 /\ full' = 0
  /\ UNCHANGED <<datavars, input, ptr, out>>

InitSync(p) ==
  /\ Goto(p, "init_sync", "init_full")
  /\ sync' = 1
  /\ UNCHANGED <<empty, full, datavars, input, ptr, out, order>>

InitFull(p) ==
  /\ Goto(p, "init_full", "init_empty")
  /\ full' = 0
  /\ UNCHANGED <<sync, empty, datavars, input, ptr, out, order>>

InitEmpty(p) ==
  /\ Goto(p, "init_empty", "open_data")
  /\ empty' = BufferSize
  /\ UNCHANGED <<sync, full, datavars, input, ptr, out, order>>

(* Variant with a bug: the data file is opened without O_TRUNC.            *)
CreateData_KeepsOld(p) ==
  /\ Goto(p, "open_data", "prompt")
  /\ order' = IF order = "starting" THEN "good" ELSE "broken"
  /\ UNCHANGED <<semvars, datavars, input, ptr, out>>

(* open with O_TRUNC and ftruncate of the data file.                       *)
CreateData(p) ==
  /\ Goto(p, "open_data", "prompt")
  /\ names' = [i \in Slot |-> Zero] /\ front' = 0 /\ rear' = 0
  /\ order' = IF order = "starting" THEN "good" ELSE "broken"
  /\ UNCHANGED <<semvars, input, ptr, out>>

(* open of the data file fails, or mmap when the file has been truncated:  *)
(* the semaphores are set up and the data may be the old one.              *)
CreateDataFails(p) ==
  /\ Goto(p, "open_data", "off")
  /\ \/ UNCHANGED datavars
     \/ names' = [i \in Slot |-> Zero] /\ front' = 0 /\ rear' = 0
  /\ order' = "broken"
  /\ UNCHANGED <<semvars, input, ptr, out>>

(* A consumer truncates nothing: it takes the files as they are.           *)
Attach(c) ==
  /\ Goto(c, "off", "prompt")
  /\ UNCHANGED <<semvars, datavars, input, ptr, out, order>>

-----------------------------------------------------------------------------
(* getInput and the loop of main                                           *)

(* "exit" and shareCleanup: sem_destroy of the C library leaves the shared *)
(* semaphores as they are, unmapping and closing the files is private.     *)
Quit(p) ==
  /\ Goto(p, "prompt", "off")
  /\ UNCHANGED <<semvars, datavars, input, ptr, out, order>>

(* A name is typed.  At end of file fgets leaves the name typed before, or *)
(* the empty one, which is a name like any other: it is produced again.    *)
AskProduct(p) ==
  /\ Goto(p, "prompt", "wait_empty")
  /\ \E x \in Item : input' = [input EXCEPT ![p] = x]
  /\ Early
  /\ UNCHANGED <<semvars, datavars, ptr, out>>

AskConsume(c) ==
  /\ Goto(c, "prompt", "wait_full")
  /\ Early
  /\ UNCHANGED <<semvars, datavars, input, ptr, out>>

(* "pd": printShareData takes no semaphore, and each of its reads of the   *)
(* ring is a step.  It compares front, as it reads it here, with rear.     *)
AskPrint(p) ==
  /\ Goto(p, "prompt", "look")
  /\ ptr' = [ptr EXCEPT ![p] = front]
  /\ Early
  /\ UNCHANGED <<semvars, datavars, input, out>>

LookEmpty(p) ==
  /\ Goto(p, "look", IF ptr[p] = rear THEN "prompt" ELSE "peek")
  /\ ptr' = [ptr EXCEPT ![p] = 0]
  /\ UNCHANGED <<semvars, datavars, input, out, order>>

(* i = data->front                                                         *)
Peek(p) ==
  /\ Goto(p, "peek", "walk")
  /\ ptr' = [ptr EXCEPT ![p] = front]
  /\ UNCHANGED <<semvars, datavars, input, out, order>>

(* while(i != data->rear)                                                  *)
Walk(p) ==
  /\ IF ptr[p] = rear
     THEN Goto(p, "walk", "prompt") /\ ptr' = [ptr EXCEPT ![p] = 0]
     ELSE Goto(p, "walk", "name") /\ UNCHANGED ptr
  /\ UNCHANGED <<semvars, datavars, input, out, order>>

(* printf reads names[i] for as long as the process is at "name"; then i,  *)
(* which is its own, goes on.                                              *)
PrintName(p) ==
  /\ Goto(p, "name", "walk")
  /\ ptr' = [ptr EXCEPT ![p] = NextSlot(@)]
  /\ UNCHANGED <<semvars, datavars, input, out, order>>

PrintShareData(p) ==
  AskPrint(p) \/ LookEmpty(p) \/ Peek(p) \/ Walk(p) \/ PrintName(p)

-----------------------------------------------------------------------------
(* product                                                                 *)

sem_wait(s) == s > 0 /\ s' = s - 1
sem_post(s) == s' = s + 1

WaitEmpty(p) ==
  /\ Goto(p, "wait_empty", "wait_sync")
  /\ sem_wait(empty)
  /\ UNCHANGED <<sync, full, datavars, input, ptr, out, order>>

(* Variant with a bug: sem_wait(sync) is left out.                         *)
ProducerSync_NoWait(p) ==
  /\ Goto(p, "wait_sync", "write")
  /\ UNCHANGED <<semvars, datavars, input, ptr, out, order>>

ProducerSync(p) ==
  /\ Goto(p, "wait_sync", "write")
  /\ sem_wait(sync)
  /\ UNCHANGED <<empty, full, datavars, input, ptr, out, order>>

(* A name of which some bytes are written over the one before.             *)
HalfWritten(old, new) == IF old \in {Zero, new} THEN old ELSE Torn

(* memcpy(names[rear], name) goes byte by byte: its first bytes ...        *)
Write(p) ==
  /\ Goto(p, "write", "copy")
  /\ ptr' = [ptr EXCEPT ![p] = rear]
  /\ names' = [names EXCEPT ![rear] = HalfWritten(@, input[p])]
  /\ UNCHANGED <<semvars, front, rear, input, out, order>>

(* ... and the rest of them.                                               *)
Copy(p) ==
  /\ Goto(p, "copy", "advance")
  /\ names' = [names EXCEPT ![ptr[p]] = input[p]]
  /\ ptr' = [ptr EXCEPT ![p] = 0]
  /\ UNCHANGED <<semvars, front, rear, input, out, order>>

AdvanceRear(p) ==
  /\ Goto(p, "advance", "post_sync")
  /\ rear' = NextSlot(rear)
  /\ UNCHANGED <<semvars, names, front, input, ptr, out, order>>

ProducerPostSync(p) ==
  /\ Goto(p, "post_sync", "post_full")
  /\ sem_post(sync)
  /\ UNCHANGED <<empty, full, datavars, input, ptr, out, order>>

(* Variant with a bug: the comment of producer.c:21 is taken at its word.  *)
PostFull_PostsEmpty(p) ==
  /\ Goto(p, "post_full", "prompt")
  /\ sem_post(empty)
  /\ input' = [input EXCEPT ![p] = Empty]
  /\ UNCHANGED <<sync, full, datavars, ptr, out, order>>

PostFull(p) ==
  /\ Goto(p, "post_full", "prompt")
  /\ sem_post(full)
  /\ input' = [input EXCEPT ![p] = Empty]
  /\ UNCHANGED <<sync, empty, datavars, ptr, out, order>>

(* Variant with a bug: rear is moved before the name is written.           *)
Product_RearFirst(p) ==
  \/ WaitEmpty(p) \/ ProducerSync(p)
  \/ /\ Goto(p, "write", "copy")
     /\ rear' = NextSlot(rear) /\ ptr' = [ptr EXCEPT ![p] = rear]
     /\ UNCHANGED <<semvars, names, front, input, out, order>>
  \/ Copy(p)
  \/ /\ Goto(p, "advance", "post_sync")
     /\ UNCHANGED <<semvars, datavars, input, ptr, out, order>>
  \/ ProducerPostSync(p) \/ PostFull(p)

Product(p) ==
  \/ WaitEmpty(p) \/ ProducerSync(p) \/ Write(p) \/ Copy(p) \/ AdvanceRear(p)
  \/ ProducerPostSync(p) \/ PostFull(p)

-----------------------------------------------------------------------------
(* consume                                                                 *)

WaitFull(c) ==
  /\ Goto(c, "wait_full", "wait_sync")
  /\ sem_wait(full)
  /\ UNCHANGED <<sync, empty, datavars, input, ptr, out, order>>

ConsumerSync(c) ==
  /\ Goto(c, "wait_sync", "take")
  /\ sem_wait(sync)
  /\ UNCHANGED <<empty, full, datavars, input, ptr, out, order>>

(* product = names[front]: the address, the name is read when printed.     *)
Take(c) ==
  /\ Goto(c, "take", "advance")
  /\ ptr' = [ptr EXCEPT ![c] = front]
  /\ UNCHANGED <<semvars, datavars, input, out, order>>

AdvanceFront(c) ==
  /\ Goto(c, "advance", "print")
  /\ front' = NextSlot(front)
  /\ UNCHANGED <<semvars, names, rear, input, ptr, out, order>>

PrintProduct(c) ==
  /\ Goto(c, "print", "post_sync")
  /\ out' = [out EXCEPT ![c] = names[ptr[c]]]
  /\ ptr' = [ptr EXCEPT ![c] = 0]
  /\ UNCHANGED <<semvars, datavars, input, order>>

(* Variant with a bug: the consumer keeps sync.                            *)
ConsumerPostSync_Missing(c) ==
  /\ Goto(c, "post_sync", "post_empty")
  /\ out' = [out EXCEPT ![c] = Unset]
  /\ UNCHANGED <<semvars, datavars, input, ptr, order>>

ConsumerPostSync(c) ==
  /\ Goto(c, "post_sync", "post_empty")
  /\ sem_post(sync)
  /\ out' = [out EXCEPT ![c] = Unset]
  /\ UNCHANGED <<empty, full, datavars, input, ptr, order>>

PostEmpty(c) ==
  /\ Goto(c, "post_empty", "prompt")
  /\ sem_post(empty)
  /\ UNCHANGED <<sync, full, datavars, input, ptr, out, order>>

(* Variant with a bug: the name is printed after both semaphores are up.   *)
Consume_PrintLast(c) ==
  \/ WaitFull(c) \/ ConsumerSync(c) \/ Take(c)
  \/ /\ Goto(c, "advance", "print")
     /\ front' = NextSlot(front) /\ sem_post(sync) /\ sem_post(empty)
     /\ UNCHANGED <<full, names, rear, input, ptr, out, order>>
  \/ /\ Goto(c, "print", "prompt")
     /\ ptr' = [ptr EXCEPT ![c] = 0]
     /\ UNCHANGED <<semvars, datavars, input, out, order>>

Consume(c) ==
  \/ WaitFull(c) \/ ConsumerSync(c) \/ Take(c) \/ AdvanceFront(c)
  \/ PrintProduct(c) \/ ConsumerPostSync(c) \/ PostEmpty(c)

-----------------------------------------------------------------------------
PrintPC == {"look", "peek", "walk", "name"}

(* A process is killed, by ^C or by the SIGBUS of a page that a producer   *)
(* truncated.  Only one that waits for its user or for a slot, or prints,  *)
(* leaves the pool as if it had never been there.                          *)
Kill(p) ==
  /\ pc[p] # "off"
  /\ pc' = [pc EXCEPT ![p] = "off"]
  /\ order' = IF pc[p] \in {"prompt", "wait_empty", "wait_full"} \cup PrintPC
              THEN order ELSE "broken"
  /\ input' = [q \in Producers |-> IF q = p THEN Empty ELSE input[q]]
  /\ ptr' = [ptr EXCEPT ![p] = 0]
  /\ out' = [c \in Consumers |-> IF c = p THEN Unset ELSE out[c]]
  /\ UNCHANGED <<semvars, datavars>>

Next ==
  \/ \E p \in Producers :
       \/ CreateSem(p) \/ InitSync(p) \/ InitFull(p) \/ InitEmpty(p)
       \/ CreateData(p) \/ CreateDataFails(p) \/ AskProduct(p) \/ Product(p)
  \/ \E c \in Consumers : Attach(c) \/ AskConsume(c) \/ Consume(c)
  \/ \E p \in Proc : Quit(p) \/ PrintShareData(p) \/ Kill(p)

Spec == Init /\ [][Next]_vars

(* A process that can go on does so in the end.  Nothing is assumed of the *)
(* order in which sem_wait serves its callers, nor of the users.           *)
FairSpec ==
  /\ Spec
  /\ \A p \in Producers : WF_vars(Product(p))
  /\ \A c \in Consumers : WF_vars(Consume(c))

-----------------------------------------------------------------------------
InitPC == {"init_sync", "init_full", "init_empty", "open_data"}
CommonPC == {"off", "prompt", "wait_sync", "post_sync"} \cup PrintPC
ProducerPC ==
  InitPC \cup CommonPC \cup {"wait_empty", "write", "copy", "advance", "post_full"}
ConsumerPC == CommonPC \cup {"wait_full", "take", "advance", "print", "post_empty"}

TypeOK ==
  /\ sync \in Nat /\ empty \in Nat /\ full \in Nat
  /\ names \in [Slot -> Item \cup {Zero, Torn}] /\ front \in Slot /\ rear \in Slot
  /\ pc \in [Proc -> ProducerPC \cup ConsumerPC]
  /\ \A p \in Producers : pc[p] \in ProducerPC
  /\ \A c \in Consumers : pc[c] \in ConsumerPC
  /\ input \in [Producers -> Item]
  /\ ptr \in [Proc -> Slot]
  /\ out \in [Consumers -> Item \cup {Zero, Torn, Unset}]
  /\ order \in {"starting", "good", "broken"}

Good == order = "good"

Critical(p) == pc[p] \in {"write", "copy", "advance", "take", "print", "post_sync"}

(* One process at a time is between sem_wait(sync) and sem_post(sync), and *)
(* the semaphore is down just then.                                        *)
MutualExclusion ==
  Good => /\ \A p, q \in Proc : Critical(p) /\ Critical(q) => p = q
          /\ sync = IF \E p \in Proc : Critical(p) THEN 0 ELSE 1

(* The names between front and rear.                                       *)
Used == IF front <= rear THEN rear - front ELSE rear + (BufferSize + 1) - front

At(P, where) == Cardinality({p \in P : pc[p] \in where})

(* The semaphores account for the ring, whoever waits, works or was killed *)
(* while it waited: full and empty lag behind rear and front by exactly    *)
(* the producers and the consumers that are under way.                     *)
SlotAccounting ==
  Good =>
    /\ full + At(Consumers, {"wait_sync", "take", "advance"})
            + At(Producers, {"post_sync", "post_full"}) = Used
    /\ empty + At(Producers, {"wait_sync", "write", "copy", "advance"})
             + At(Consumers, {"print", "post_sync", "post_empty"})
         = BufferSize - Used

(* "pd" takes no semaphore.  However its reads and the steps of the others *)
(* interleave, the slot it prints has been filled by some producer, at     *)
(* every moment of the printing.  The name in it need not be whole: it is  *)
(* torn while a producer is just writing the next one over it, and only    *)
(* then.                                                                   *)
PeekReadsNames ==
  \A p \in Proc :
    Good /\ pc[p] = "name"
      => /\ names[ptr[p]] # Zero
         /\ names[ptr[p]] = Torn
              => \E q \in Producers : pc[q] = "copy" /\ ptr[q] = ptr[p]

(* A consumer prints the name it took: nobody writes into that slot before *)
(* the consumer is done with it.                                           *)
SlotKeptUntilPrinted ==
  [][\A c \in Consumers :
       Good /\ pc[c] \in {"advance", "print"} /\ order' = "good"
         => names'[ptr[c]] = names[ptr[c]]]_vars

-----------------------------------------------------------------------------
(* The names still in the pool, from the oldest, and what a consumer has   *)
(* taken: it took the name when it moved front, before it printed it.      *)
Contents ==
  [i \in 1 .. Used |-> names[(front + i - 1) % (BufferSize + 1)]]

Taken ==
  [c \in Consumers |-> IF pc[c] = "print" THEN names[ptr[c]] ELSE out[c]]

Pool == INSTANCE BoundedBuffer WITH
  up <- Good,
  buf <- IF Good THEN Contents ELSE <<>>,
  got <- IF Good THEN Taken ELSE [c \in Consumers |-> Unset]

(* Between a good start and a disturbance the ring is a FIFO queue of at   *)
(* most BUFFER_SIZE names.                                                 *)
PoolIsFifo == Pool!BufSpec

(* Who was asked to produce or to consume and finds a slot or a name is    *)
(* served, with one process of each kind, unless it is killed or the pool  *)
(* is broken.                                                              *)
Served ==
  /\ \A p \in Producers :
       pc[p] = "wait_empty" /\ Good /\ empty > 0
         ~> pc[p] \in {"prompt", "off"} \/ ~Good
  /\ \A c \in Consumers :
       pc[c] = "wait_full" /\ Good /\ full > 0
         ~> pc[c] \in {"prompt", "off"} \/ ~Good
=============================================================================
