---------------------------- MODULE ProcessSync ----------------------------
(***************************************************************************)
(* lab-05/process_sync.c and process_sync_sem.c: a parent writes an array  *)
(* in a System V shared memory segment and its child reads it, ordered by  *)
(* sleep(1) in the one program ("plain") and by two semaphores in the      *)
(* other ("sem").  The segment is found by the fixed SHM_KEY, so that runs *)
(* of a program that are started at the same time, or after one that was   *)
(* killed, share it, with what is left in it.                              *)
(*                                                                         *)
(* Cell i holds i + 1 once it is written and 0 before, whoever writes it:  *)
(* the array is the set of its written cells.  The sleeps only spread the  *)
(* steps, and a process that has nothing to do but to sleep has ended.     *)
(***************************************************************************)
EXTENDS Integers, FiniteSets

CONSTANTS
  Run,        \* invocations of the program; one that has ended can be used anew
  Segment,    \* the ids shmget can return
  NoSegment,  \* no id
  DataSize    \* DATA_SIZE

ASSUME ProcessSyncAssumption ==
  /\ NoSegment \notin Segment
  /\ DataSize \in Nat \ {0}

VARIABLES
  program,    \* which of the two is run
  key,        \* the segment of SHM_KEY
  data,       \* the written cells of a segment
  sem_w,      \* the semaphores of a segment
  sem_r,
  asleep,     \* who waits for a semaphore that does not know of it any more
  pc,         \* where main and then the parent is
  child,      \* where the child is
  shm_id,     \* the segment of a run
  i,          \* how many cells the parent has written
  seen,       \* the cells the child has read, and those among them not 0
  disturbed,  \* history: the segments whose use is not in order, see Note
  failed      \* history: a process was killed, or had no memory to go on

segvars == <<data, sem_w, sem_r, asleep>>
notes == <<disturbed, failed>>
vars == <<program, key, segvars, pc, child, shm_id, i, seen, notes>>

Cell == 0 .. DataSize - 1
Nothing == [cells |-> 0, written |-> {}]
Users(g) == {r \in Run : shm_id[r] = g}

(* Between shmat and shmdt, or the end of the process.                     *)
Attached(g) ==
  \E r \in Users(g) : pc[r] \notin {"off", "shmat", "rmid"} \/ child[r] # "off"

(* IPC_RMID leaves a segment to those who are attached.                    *)
Exists(g) == key = g \/ Attached(g)

Init ==
  /\ program \in {"plain", "sem"}
  /\ key = NoSegment
  /\ data = [g \in Segment |-> {}]
  /\ sem_w = [g \in Segment |-> 0] /\ sem_r = [g \in Segment |-> 0]
  /\ asleep = {}
  /\ pc = [r \in Run |-> "off"] /\ child = [r \in Run |-> "off"]
  /\ shm_id = [r \in Run |-> NoSegment]
  /\ i = [r \in Run |-> 0]
  /\ seen = [r \in Run |-> Nothing]
  /\ disturbed = {} /\ failed = FALSE

-----------------------------------------------------------------------------
(* The services of the kernel and the C library                            *)

(* The processes in sem_wait(&sem_w), and those in sem_wait(&sem_r).       *)
Waiters(g, w) ==
  {q \in Users(g) : w = IF w = "wait_w" THEN pc[q] ELSE child[q]} \X {w}

(* On a semaphore that processes sleep on sem_init is undefined.  That of  *)
(* glibc sets the number of its waiters to 0, and for those there were no  *)
(* post need call the kernel: they may go on sleeping although it is up.   *)
sem_init(sem, w, r, value) ==
  /\ sem' = [sem EXCEPT ![shm_id[r]] = value]
  /\ \E S \in SUBSET Waiters(shm_id[r], w) : asleep' = asleep \cup S

sem_wait(sem, w, r) ==
  /\ <<r, w>> \notin asleep /\ UNCHANGED asleep
  /\ sem[shm_id[r]] > 0 /\ sem' = [sem EXCEPT ![shm_id[r]] = @ - 1]

sem_post(sem, r) ==
  sem' = [sem EXCEPT ![shm_id[r]] = @ + 1] /\ UNCHANGED asleep

(* A sleeper is woken after all, by the post that was for another, which   *)
(* may then be the one that is not known.                                  *)
Stir(r) ==
  \E w \in {"wait_w", "wait_r"} :
    /\ <<r, w>> \in asleep
    /\ \E S \in SUBSET (Waiters(shm_id[r], w) \ {<<r, w>>}) :
         asleep' = (asleep \ {<<r, w>>}) \cup S
    /\ UNCHANGED <<key, data, sem_w, sem_r, pc, child, shm_id, i, seen, failed>>

Goto(r, from, to) == pc[r] = from /\ pc' = [pc EXCEPT ![r] = to]
ChildGoto(r, from, to) ==
  child[r] = from /\ child' = [child EXCEPT ![r] = to]

(* A process of run r detaches, or ends.  A run without processes keeps    *)
(* nothing, and a segment that is removed and not used is destroyed (the   *)
(* next one with its id is all 0).                                         *)
Leave(r) ==
  LET over == pc'[r] = "off" /\ child'[r] = "off"
      clear(f, nil) == IF over THEN [f EXCEPT ![r] = nil] ELSE f
      wipe(f, nil) == [g \in Segment |-> IF Exists(g)' THEN f[g] ELSE nil]
  IN /\ shm_id' = clear(shm_id, NoSegment)
     /\ i' = clear(i, 0) /\ seen' = clear(seen, Nothing)
     /\ data' = wipe(data, {})
     /\ sem_w' = wipe(sem_w, 0) /\ sem_r' = wipe(sem_r, 0)
     /\ asleep' = {s \in asleep : s \in Waiters(shm_id[s[1]], s[2])'}

-----------------------------------------------------------------------------
(* main, up to fork                                                        *)

(* shmget(SHM_KEY, ..., IPC_CREAT): the segment of the key, or a new one.  *)
(* The kernel does not soon give an id again that a process keeps.         *)
Shmget(r) ==
  /\ child[r] = "off" /\ Goto(r, "off", "shmat")
  /\ \E g \in Segment :
       /\ g = key \/ (key = NoSegment /\ Users(g) = {})
       /\ key' = g /\ shm_id' = [shm_id EXCEPT ![r] = g]
  /\ UNCHANGED <<segvars, child, i, seen, failed>>

Shmat(r) ==
  /\ Exists(shm_id[r]) /\ Goto(r, "shmat", "zero")
  /\ UNCHANGED <<key, segvars, child, shm_id, i, seen, failed>>

(* shmat or fork fails, return -1: the segment is left as it is.  shmat    *)
(* does so when the segment was destroyed since shmget.                    *)
Fails(r) ==
  /\ \/ Goto(r, "shmat", "off") \/ Goto(r, "fork", "off")
  /\ failed' = TRUE
  /\ UNCHANGED <<key, child>>
  /\ Leave(r)

(* The array is zeroed in a loop.  To do it in one step is the same for    *)
(* all that is claimed of a segment that nobody uses meanwhile.            *)
ZeroData(r) ==
  /\ Goto(r, "zero", IF program = "sem" THEN "sem_w" ELSE "fork")
  /\ data' = [data EXCEPT ![shm_id[r]] = {}]
  /\ UNCHANGED <<key, sem_w, sem_r, asleep, child, shm_id, i, seen, failed>>

(* Variant with a bug: both semaphores begin with 1.                       *)
InitSems_Both(r) ==
  /\ \/ Goto(r, "sem_w", "sem_r") /\ sem_init(sem_w, "wait_w", r, 1) /\ UNCHANGED sem_r
     \/ Goto(r, "sem_r", "fork") /\ sem_init(sem_r, "wait_r", r, 1) /\ UNCHANGED sem_w
  /\ UNCHANGED <<key, data, child, shm_id, i, seen, failed>>

InitSems(r) ==
  /\ \/ Goto(r, "sem_w", "sem_r") /\ sem_init(sem_w, "wait_w", r, 1) /\ UNCHANGED sem_r
     \/ Goto(r, "sem_r", "fork") /\ sem_init(sem_r, "wait_r", r, 0) /\ UNCHANGED sem_w
  /\ UNCHANGED <<key, data, child, shm_id, i, seen, failed>>

Fork(r) ==
  /\ Goto(r, "fork", IF program = "sem" THEN "wait_w" ELSE "write")
  /\ ChildGoto(r, "off", IF program = "sem" THEN "wait_r" ELSE "sleep")
  /\ UNCHANGED <<key, segvars, shm_id, i, seen, failed>>

-----------------------------------------------------------------------------
(* The parent                                                              *)

WaitW(r) ==
  /\ Goto(r, "wait_w", "write") /\ sem_wait(sem_w, "wait_w", r)
  /\ UNCHANGED <<key, data, sem_r, child, shm_id, i, seen, failed>>

(* Variant with a bug: i <= DATA_SIZE.                                     *)
WriteCell_OneMore(r) ==
  /\ \/ i[r] < DataSize /\ pc[r] = "write" /\ UNCHANGED pc
     \/ i[r] = DataSize /\ Goto(r, "write", "post_r")
  /\ data' = [data EXCEPT ![shm_id[r]] = @ \cup {i[r]}]
  /\ i' = [i EXCEPT ![r] = @ + 1]
  /\ UNCHANGED <<key, sem_w, sem_r, asleep, child, shm_id, seen, failed>>

(* shareData->data[i] = i + 1                                              *)
WriteCell(r) ==
  /\ \/ i[r] < DataSize - 1 /\ pc[r] = "write" /\ UNCHANGED pc
     \/ i[r] = DataSize - 1
        /\ Goto(r, "write", IF program = "sem" THEN "post_r" ELSE "shmdt")
  /\ data' = [data EXCEPT ![shm_id[r]] = @ \cup {i[r]}]
  /\ i' = [i EXCEPT ![r] = @ + 1]
  /\ UNCHANGED <<key, sem_w, sem_r, asleep, child, shm_id, seen, failed>>

(* Variant with a bug: sem_post(&shareData->sem_w).                        *)
PostR_PostsW(r) ==
  /\ Goto(r, "post_r", "shmdt") /\ sem_post(sem_w, r)
  /\ UNCHANGED <<key, data, sem_r, child, shm_id, i, seen, failed>>

PostR(r) ==
  /\ Goto(r, "post_r", "shmdt") /\ sem_post(sem_r, r)
  /\ UNCHANGED <<key, data, sem_w, child, shm_id, i, seen, failed>>

Shmdt(r) ==
  /\ Goto(r, "shmdt", "rmid")
  /\ UNCHANGED <<key, child, failed>>
  /\ Leave(r)

(* Variant with a bug: not removed while the child is attached.            *)
Rmid_Unused(r) ==
  /\ Goto(r, "rmid", "off")
  /\ key' = IF key = shm_id[r] /\ child[r] = "off" THEN NoSegment ELSE key
  /\ UNCHANGED <<child, failed>>
  /\ Leave(r)

(* shmctl(shm_id, IPC_RMID): the key is free for another segment.  It was  *)
(* already if another run removed the segment.                             *)
Rmid(r) ==
  /\ Goto(r, "rmid", "off")
  /\ key' = IF key = shm_id[r] THEN NoSegment ELSE key
  /\ UNCHANGED <<child, failed>>
  /\ Leave(r)

Parent(r) == WaitW(r) \/ WriteCell(r) \/ PostR(r) \/ Shmdt(r) \/ Rmid(r)

-----------------------------------------------------------------------------
(* The child                                                               *)

(* sleep(1), however far the parent has come meanwhile.                    *)
Wake(r) ==
  /\ ChildGoto(r, "sleep", "read")
  /\ UNCHANGED <<key, segvars, pc, shm_id, i, seen, failed>>

WaitR(r) ==
  /\ ChildGoto(r, "wait_r", "read") /\ sem_wait(sem_r, "wait_r", r)
  /\ UNCHANGED <<key, data, sem_w, pc, shm_id, i, seen, failed>>

(* One turn of printData.                                                  *)
ReadCell(r) ==
  LET c == seen[r].cells
  IN /\ \/ c < DataSize - 1 /\ child[r] = "read" /\ UNCHANGED child
        \/ c = DataSize - 1
           /\ ChildGoto(r, "read", IF program = "sem" THEN "post_w" ELSE "done")
     /\ seen' = [seen EXCEPT ![r] =
          [cells |-> c + 1, written |-> @.written \cup (data[shm_id[r]] \cap {c})]]
     /\ UNCHANGED <<key, segvars, pc, shm_id, i, failed>>

PostW(r) ==
  /\ ChildGoto(r, "post_w", "done") /\ sem_post(sem_w, r)
  /\ UNCHANGED <<key, data, sem_r, pc, shm_id, i, seen, failed>>

ChildEnds(r) ==
  /\ ChildGoto(r, "done", "off")
  /\ UNCHANGED <<key, pc, failed>>
  /\ Leave(r)

Child(r) == Wake(r) \/ WaitR(r) \/ ReadCell(r) \/ PostW(r) \/ ChildEnds(r)

-----------------------------------------------------------------------------
(* A signal ends one process of a run.                                     *)
Kill(r) ==
  /\ \/ pc[r] # "off" /\ pc' = [pc EXCEPT ![r] = "off"] /\ UNCHANGED child
     \/ child[r] # "off" /\ child' = [child EXCEPT ![r] = "off"] /\ UNCHANGED pc
  /\ failed' = TRUE
  /\ UNCHANGED key
  /\ Leave(r)

(* Those who work on the array: from the sem_wait to the sem_post, or,     *)
(* without semaphores, from fork to the end.                               *)
Writing(g) == {r \in Users(g) : pc[r] \in {"write", "post_r"}}
Reading(g) == {r \in Users(g) : child[r] \in {"sleep", "read", "post_w"}}
SettingUp(g) == \E r \in Users(g) : pc[r] \in {"zero", "sem_w", "sem_r"}

(* Another run sets a segment up while somebody works on it, or waits for  *)
(* its semaphores, or is about to read; or sleep(1) was shorter than the   *)
(* writing.                                                                *)
Disturbance(g) ==
  \/ /\ SettingUp(g)
     /\ \/ Writing(g) \cup Reading(g) # {} \/ sem_r[g] > 0
        \/ Waiters(g, "wait_w") \cup Waiters(g, "wait_r") # {}
  \/ /\ program = "plain"
     /\ \E r \in Users(g) : child[r] = "read" /\ i[r] < DataSize

(* A segment is in order again when all have left it.                      *)
Note ==
  disturbed' = {g \in Segment : /\ g \in disturbed \/ Disturbance(g)'
                                /\ Attached(g)'}

Main(r) == Shmat(r) \/ ZeroData(r) \/ InitSems(r) \/ Fork(r)

Step(A) == A /\ UNCHANGED program /\ Note

Next ==
  \E r \in Run :
    \/ Step(Shmget(r)) \/ Step(Main(r)) \/ Step(Fails(r))
    \/ Step(Parent(r)) \/ Step(Child(r)) \/ Step(Kill(r))
    \/ Step(Stir(r))

Spec == Init /\ [][Next]_vars

-----------------------------------------------------------------------------
TypeOK ==
  /\ key \in Segment \cup {NoSegment}
  /\ data \in [Segment -> SUBSET Cell]
  /\ sem_w \in [Segment -> Nat] /\ sem_r \in [Segment -> Nat]
  /\ asleep \in SUBSET (Run \X {"wait_w", "wait_r"})
  /\ shm_id \in [Run -> Segment \cup {NoSegment}]
  /\ i \in [Run -> 0 .. DataSize]
  /\ \A r \in Run : seen[r].cells \in 0 .. DataSize /\ seen[r].written \in SUBSET Cell
  /\ disturbed \in SUBSET Segment /\ failed \in BOOLEAN

(* Whoever set the segment up, and even if the child gets what the parent  *)
(* of another run wrote, or a parent was killed half way: a child that has *)
(* read the array has read all of the data.                                *)
ReadsComplete ==
  \A r \in Run :
    child[r] \in {"post_w", "done"} /\ shm_id[r] \notin disturbed =>
      seen[r].written = Cell

Tokens(g) ==
  sem_w[g] + sem_r[g] + Cardinality(Writing(g)) + Cardinality(Reading(g))

(* With semaphores, runs that share a segment take turns: there is one     *)
(* writer, or one reader, or one semaphore that is up.                     *)
OneAtATime ==
  program = "sem" =>
    \A g \in Segment \ disturbed :
      Attached(g) /\ ~SettingUp(g) => Tokens(g) <= 1

(* The segment does not outlive the runs, unless a process was killed or   *)
(* main failed: the key is that of a run that has yet to remove it.        *)
SegmentRemoved ==
  key # NoSegment /\ ~failed => \E r \in Users(key) : pc[r] # "off"

(* No wakeup is lost between runs that share a segment, unless one of them *)
(* initialises the semaphores while a process of another waits for them,   *)
(* writes or reads: nobody sleeps that no post wakes, for each child that  *)
(* waits there is a parent that has yet to post, or a semaphore that is    *)
(* up; and when a parent waits, somebody has yet to give it its turn.      *)
NobodyForgotten ==
  program = "sem" /\ ~failed =>
    \A g \in Segment \ disturbed :
      LET waiting == {r \in Users(g) : child[r] = "wait_r"}
          to_write == {r \in Users(g) : pc[r] \in {"wait_w", "write", "post_r"}}
      IN /\ \A s \in asleep : s[1] \notin Users(g)
         /\ Cardinality(waiting) = Cardinality(to_write) + sem_r[g]
         /\ to_write # {} /\ ~SettingUp(g) => Tokens(g) = 1
=============================================================================
