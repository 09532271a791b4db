# Verification of st-os-lab

TLA+ models of the programs of this repository (operating system course work, in
C and C++), TLC runs that check them on small instances, and theorems that TLAPS
checks for instances of any size. A module is named for the program it models and
its definitions for the functions and variables they translate; `PROJECT.json`
maps each definition to its lines.

## 1. The system

The repository is a collection of independent programs. They share no code; what
interacts is inside each lab.

| Component | Source | State it keeps | Operations | Modelled by |
| --- | --- | --- | --- | --- |
| RCU library module | `lab-06-RCULock/library/kylin_rcu.c` | the list `books` of `struct book` in slab memory, `books_lock`, the threads, RCU sections and callbacks in flight | insmod, `add_book`, `borrow_book`, `return_book`, `print_book`, `delete_book`, `book_reclaim_callback`, rmmod | `RcuList`, `Lending`, `KylinRcu` |
| Producer and consumer | `lab-05/Producer-Consumer` | three process-shared semaphores and a ring of names in two mmapped files, which outlive the processes | start (`shareInit`), `product`, `consume`, `printShareData`, exit, kill | `BoundedBuffer`, `ProducerConsumer` |
| Banker's algorithm | `lab-08-banker` | the matrices, the command line | `GetInput`, the loop of `main`, `IsSafety`, `Banker` | `SafeAllocation`, `Banker` |
| Page replacement | `lab-09-page-replace/main.cpp` | frames with ages, fault flags | menu, `InitialBlock`, `FIFO`, `Optimal`, `LRU`, `PageNum` | `PageReplace` |
| RCU library, crashing version | `kylin_rcu_crash.c` | as the RCU library, and `on_duty` | the same, looked up under `rcu_read_lock` only; an exit that sleeps | `RcuList`, `Lending`, `KylinRcuCrash` |
| Process synchronisation | `lab-05/process_sync.c`, `process_sync_sem.c` | a System V segment under a fixed key, with an array and two semaphores | set up, write (parent), read (child), remove, kill | `ProcessSync` |
| The rest | `library.c` (a restyled copy of `kylin_rcu.c`), `lab-08-banker/test.c`, lab-03, lab-04, lab-05 fork and thread, lab-07 | none shared | one fork or one thread that prints | not modelled |

How they interact, and what is hard:

* **RCU library.** Managers read the list without a lock; students change it under
  `books_lock`; the kernel runs callbacks in its own time; the loader creates and
  stops all threads. Hard: a reader's walk over entries that are replaced under
  it, the moment at which memory may be freed, the copy of the flag, failing
  allocations, the order of rmmod, pending callbacks and readers. It is correct if
  no thread touches freed memory, the list stays closed, a lookup misses nothing,
  a book has one borrower, and memory comes back.
* **RCU library, crashing version.** A student looks its book up as a reader and
  takes the lock only for `list_replace_rcu`. Hard: two students about to replace
  the same entry, an entry replaced or deleted since it was found, a thread that
  dies with the lock held, an exit that waits for nobody. The repository keeps it,
  with the kernel's reports of crashes (`rcu-debug.txt`), as the thing that was
  mended; it is correct in so far as the race always ends in that fault, and never
  in a book lent twice or a list torn apart. Not all of the reports are of this
  text: see section 4.
* **Producer and consumer.** Processes started by hand, in any order, share files
  that keep the state of earlier runs. Hard: the three semaphores against the ring
  they count, a pointer into the ring that is used after `front` moved on, printing
  without a lock while a name is being copied, a process killed anywhere, a producer
  that starts anew under running consumers. It is correct if the pool is a bounded
  FIFO queue from a clean start to the next disturbance.
* **Process synchronisation.** A parent and a child, ordered by sleeping in the one
  program and by semaphores in the other. The key of the segment is a constant:
  what one run leaves behind, or has not finished, is where the next one starts.
  Hard: a second run that zeroes the array and sets the semaphores under the
  first, a post that wakes the child of another run, a parent killed half way, a
  segment removed while others attach to it. It is correct if a child reads what a
  parent has written in full, runs take turns, and nothing stays behind.
* **Banker.** Sequential. Hard: the rollback over three matrices, the order of the
  safety check, what a long sequence of legal requests leads to, and the input
  that is not checked. It is correct if it stays safe and loses nothing.
* **Page replacement.** Sequential; all runs share frames and flags. Hard: ages
  after arbitrary sequences of hits and misses, ties and pages never used again in
  Optimal, values left from the run before. It is correct if each algorithm evicts
  the page its name says.

## 2. Modules

### RcuList: what the kernel does

`kzalloc`, `kfree`, the list operations of `rculist.h`, read-side sections and
grace periods, none of which is in the repository (external in the map). Each is
an action formula that a caller conjoins with its step. `heap[n]` is the life of
a `struct book`; `next` and `prev` are its list pointers. An unlinked entry keeps
its `next` pointer, which is what lets a reader walk on, and its `prev` becomes
`POISON`. `waits[n]` holds the readers that the grace period of `n` has to wait
for: those inside a section when `call_rcu` or `synchronize_rcu` was called.
`mayhold[n]` is a history variable: the readers that were inside a section when
`n` was unlinked, and still are.

Abstractions: a free struct is zeroed by `kfree` and not by `kzalloc` (nobody may
read it in between, which `NoUseAfterFree` checks); the stores of one list
operation are one step, since the only one a reader can see is the store into the
predecessor's `next`, and writers hold `books_lock` over all of them. What two
overlapping list operations would do is therefore not in the model.

### KylinRcu

The critical sections of `borrow_book` and `return_book` are split where another
thread could see a difference: taking the lock, the lookup with the allocation,
the store into the flag of the old entry (readers see it), copy and replacement,
and `call_rcu` after the unlock. A manager takes one step per entry of its walk.
`add_book` and the unlinking in `delete_book` are one step each, and need the lock
to be free: no other thread exists then. `Publish` is what copying and replacing do
to the books; `Replace` adds the list operation and the unlock. `kthread_run` may
fail (`pc` is then "err"), which nobody looks at before `kthread_stop` gets the
error pointer and dies of it (`KthreadStopErr`). `Loader` stands for the tasks that run
`module_init` and `module_exit`. kzalloc may fail in every place it is called.
Names and authors of books, printing and `msleep` are left out.

`lost` is a history variable: the ids whose `return_book` failed for want of
memory.

`Lending` is the library as a user sees it: books on a shelf, loans, and marks, with
`Add`, `Borrow`, `Return` and `Remove` in one step each, and `Forfeit` for the
return that fails; a step that shows nothing is `LendStep` too. `LendsBooks` is the
refinement: the shelf is the ids on the list, a loan lasts from the store of the
flag in `borrow_book` to that in `return_book` (the moment at which readers see it),
and the copying, replacing and freeing in between show nothing.

### KylinRcuCrash

EXTENDS `KylinRcu`, whose actions it uses for every function that has the same text
in both files, and replaces the students and the exit. Students are readers here
(`LookupLock`, `LookupNext`, `LookupFound`), so that grace periods wait for them as
well. The copy (`CopyBook`, or `NoMemory`) comes after the lookup in a step of its
own, in which nothing holds the others off the entry that was found. `Swap` is the
short critical section. A student whose `old_b` has left the list stores through
`LIST_POISON2`: `Fault` ends the thread as lines 81-148 of `rcu-debug.txt` show it
for `borrow_book` (a general protection fault at 0xdead000000000122, then "exited
with preempt_count 1"), with `books_lock` held and its copy lost. Whoever wants the
lock afterwards waits for ever, which is why deadlock is not checked there.
`OffDuty` is `on_duty = 0` with an `msleep` of any length. A loan lasts from `Swap`
to `Swap` or to the deletion of the book.

`BorrowerFindsBook` is what the check of the result of `borrow_book`
(`kylin_rcu_crash.c:294`) is for: only the student that has a book returns it, so
nobody replaces the entry in its hands, and the fault is one of borrowers alone.
Without the check (`LookupFailed_Returns`) a student that was refused the book returns
it too, and the holder faults in `return_book`.

### ProcessSync

Both programs; `program` is chosen at the start and stays. A run of `Run` is one
invocation with its parent (`pc`) and its child, and can be used again when both
have ended, so that any number of invocations one after the other, and two at a
time, are in the model. `key` is the segment that `shmget` finds; a removed one lives
on until the last process detaches (`Exists`), and is all zero when its id is given
again (`Leave`). `asleep` has the processes that sleep on a semaphore which a
`sem_init` has been called on since: POSIX leaves that undefined, and in glibc it
sets the count of the waiters to zero, so that a later `sem_post` need not wake them
although the value is positive. Any of them may be forgotten, and be woken after
all by a post that was meant for another (`Stir`). The array is the set of cells that
hold their value, since cell i gets the same value from every parent. `Kill` may
happen at every step.

`disturbed` is a history variable: the segments that a run set up (`ZeroData`,
`InitSems`) while a process of another was writing or reading, or waited for one of
the semaphores, and, for the program without semaphores, those whose child woke
before its parent had finished. Nothing is claimed of them until all have left; the
steps are in the model all the same.
`failed` says that a process was killed or had no memory: who was to post or to
remove the segment may be gone.

### ProducerConsumer and BoundedBuffer

One step per access to the shared files, and two for the `memcpy` of a name, which
goes byte by byte: `Write` leaves the slot half written (`Torn`, unless the name is the
one that was there) and `Copy` completes it. One torn value stands for every mixture of
two names. A slot of a new file reads as zero until the copy is complete, so that
nobody may take part of a first name for a name. `printShareData` reads `front`
(`AskPrint`), `rear` (`LookEmpty`), `front` again (`Peek`), and in each turn `rear`
(`Walk`) and the name; `PeekReadsNames` holds for as long as `printf` may be reading it
(`PrintName` ends that). What it says is that the slot has been filled, and is torn
only while a producer is at this very copy: that `pd` prints a whole name is not so.

`names`, `front`, `rear` and the semaphores are global and survive the processes.
`CreateSem` to `CreateData` are `shareInit` of a producer, with the failures of
`mmap` and `open`; `Attach` is `shareInit` of a consumer, which takes the files as
they are. `Kill` may happen at every step.

A slot of a new file reads as the empty string, but it is told apart (`Zero`)
from the empty name that a producer may write, so that reading a slot nobody wrote
is seen. `sem_destroy` of the C library does nothing to the shared memory. The
history variable `order` says when the pool can be trusted: it is "good" from the
end of a `shareInit` that nobody disturbed, until a process is killed in a
critical section or with a post outstanding, or a producer truncates the files.
Everything claimed of the pool is claimed while it is good; the steps are in the
model all the same.

A `sem_wait` that sleeps when a producer truncates the files may in reality stay
asleep on the old value. In the model it may go on or not, which contains that;
nothing is claimed of the pool then, since a start is clean only if all others are
off or at their prompts (`CreateSem`).

`BoundedBuffer` is the queue that the ring implements; `PoolIsFifo` is the
refinement. A name leaves the abstract queue when the consumer moves `front`.

### Banker and SafeAllocation

`GetInput`, the dispatch of `main`, the two reads of `Banker` and its comparisons,
trial, safety check, grant and rollback are actions. What was typed is a choice
among `Command`, `Proc` and `Requests`, or one of the failures of `fgets` and
`scanf`; a read that fails at the end of the input leads into
`while(getchar() != '\n')`, for ever (`SkipForEver`). `SafeSeq` is the loop of
`IsSafety`, as a function of the turn of its inner loop. Integers are
mathematical: nothing here comes near the width of `int`.

`SafeAllocation` says what the algorithm promises, with another definition of
safety: no group of processes is stuck. A request is granted whole in one step or
not at all; a trial that is going to be rolled back has not happened.

### PageReplace

One step per reference. `iTempPage` is a copy of `iPageString` that nothing
changes, and is left out. The number of frames is the literal 3 of the loops;
strings begin with three different pages, which the code takes for granted in
`InitialBlock`.

## 3. Runs

| Run | Instance | Shows |
| --- | --- | --- |
| `rcu` | 2 students, 1 manager, 2 books, 4 structs | all safety properties of the library; it is a `Lending` library |
| `rcu_live` | 2 students, 1 manager, 1 book, 3 structs, fair | replaced entries are freed, rmmod returns |
| `rcu_lost` | the same, violation | a failed return leaves the book borrowed for ever |
| `rcu_unload` | the same, violation | rmmod leaves callbacks behind |
| `rcu_crash` | 2 students, 1 manager, 2 books, 3 structs | what the race of the crashing version cannot do; it is a `Lending` library too |
| `pool` | 1 producer, 2 consumers, 1 slot, 2 names | mutual exclusion, the semaphores count the ring, a slot is kept until its name is printed, printing the pool meets only filled slots, torn only during a copy |
| `pool_live` | 1 producer, 1 consumer, 2 slots, 2 names, fair | the ring is a FIFO queue; who can be served is served |
| `sync` | 2 runs, 2 segments, 2 cells, both programs | complete reads, turns, no segment left behind; no lost wakeup unless the semaphores are initialised under processes at work or asleep |
| `banker` | 5 processes, 3 resources, 4 systems, 5 requests | conservation, safety, all-or-nothing, the safety check |
| `banker_return` | a negative request, violation | allocations become negative |
| `banker_long` | violation | a rejected line repeats a command |
| `pages` | 8 references to 5 pages, all strings | ages, fault counts, optimality |

Why the bounds are enough to be worth checking:

* RCU: two students race for the lock, for a book and for memory; with four
  structs and two books both entries can be replaced while a manager stands on
  the first one, its successor is replaced in turn, and an allocation fails
  because everything waits for a grace period. A walk passes a neighbour. Readers
  only interact through what they hold up, so one is enough. Students, managers
  and structs are symmetric.
* Crashing version: both students can have found the same entry, one of them
  replaces it and goes on, while the entry waits for the section of the other and a
  manager walks past. Three structs are an entry and two copies of it when the other
  book could not be added, and two entries and one copy when it was: the
  other student finds no memory then, since the entry it holds up is not free yet.
* The largest state spaces are those of `pool` (1.2 million distinct states), `rcu_crash`
  (1.1 million), `pool_live` (0.4 million, with liveness) and `sync` (0.3 million).
* Pool: the ring has `BufferSize + 1` slots, so that 2 has a first, a middle and
  a last one and wraps; with two consumers a buffer of 1 makes a producer wait for
  the very slot a consumer still prints, and two consumers race for it.
* Process synchronisation: two runs are enough for every pair of a parent and the
  child of another run, for a run that starts on what a killed one left, and for
  a second segment under the key when the first is removed but attached. With
  two cells an array can be half written and half read.
* Banker: the system of `main.c`, and three more in which the processes come in
  reverse order and less is available, down to an unsafe one: the first needs one
  more pass than indices in ascending order do. The requests are of the kinds
  granted, too much for a process, not available, refused by the safety check,
  and empty.
* Pages: with five pages and three frames all patterns of hits and misses, and of
  ties in Optimal, up to the length of 8. Three runs in a row on the same frames
  are among the behaviours, in every order.

Fairness. In `rcu_live` a manager that can run does so in the end (weak fairness),
and so do the callback of a grace period that is over and the loader; a student
gets strong fairness, because the kernel's spin lock is queued: who waits for
`books_lock` gets it. Nobody is obliged to call rmmod. In `pool_live` processes
are weakly fair in `product` and `consume` and users are not fair at all: with
one process of each kind a positive semaphore stays positive until it is taken,
so no assumption on the order in which `sem_wait` serves its callers is needed.
`Served` begins with a semaphore that is up, so it is `sync` whose loss it would see; that
`empty` and `full` are not lost is `SlotAccounting`. `RmmodReturns` asks that every thread
was created. In `sync` the corresponding
question is asked without fairness: `NobodyForgotten` counts, in every state, a post to
come for each process that waits.

Mutants. For each property of a passing run, a definition with a bug
(`Retire_KfreeNow`, `SafeSeq_OnePass`, ...) stands before the one it replaces; with
it in place TLC finds the property violated.

## 4. Where the code and what is said of it differ

* `rcu_lost`: `kthread_student` ignores the result of `return_book`
  (`kylin_rcu.c:258`), which fails when kzalloc does.
* `rcu_unload`: `kylin_rcu_exit` has no `rcu_barrier()` (`kylin_rcu.c:314`); the
  text of `book_reclaim_callback` may be gone when it is called.
* `banker_return`: a negative request passes both comparisons (`banker.c:222`,
  `banker.c:232`).
* `banker_long`: `main` ignores the result of `GetInput` (`main.c:58`) and looks
  at a `cmd` that was not read, or never initialised.

Without a run: `rcu-debug.txt`, the kernel's log that is kept with the crashing
version, does not agree with it throughout. Its reports of faults in `borrow_book`
(lines 81-148, 219-250) are of the race that the model has. The one of lines 164-215
is not: there student0 is refused book 0 (line 175) and returns it all the same
(lines 179 and 181), together with student1 that holds it, and student1 faults in
`return_book`. In the text of `kylin_rcu_crash.c` that cannot happen, since line 294
lets a student return a book only when `borrow_book` has returned 0; the log is of a
text without that check. `BorrowerFindsBook` is about the text as it is, and fails
with what the log shows (its mutant `LookupFailed_Returns`).

Also without a run: the comment at `process_sync.c:88` says of `sleep(1)` that it
ensures that the parent has finished writing; in the model, as on a loaded machine,
`Wake` may come before. `lab-06-RCULock/readme.md:11` and `library.c:198` say that a
change waits for the readers to leave; in the model, as in the kernel, the list
changes under the readers and only the old memory waits. The comments at
`producer.c:12` and `producer.c:21` (and `consumer.c:12`, `consumer.c:21`) name the
semaphores the other way round; with `sem_post` as the comment has it,
`SlotAccounting` fails (`PostFull_PostsEmpty`).

## 5. What is proved

The library (from `RcuListAssumption` and `KylinRcuAssumption`: the kinds of
threads are disjoint, HEAD and POISON are no addresses, there is at least one
book; no set has to be finite):

* In `KylinRcuProofs`: `TypeCorrect`, `MemorySafe` (`NoUseAfterFree`),
  `NewSectionsSeeNewCopies` (`StaleOnlyInOldSections`), `ListCorrect`
  (`ListWellFormed` and `OneEntryPerBook`), `OneBorrower` (`SingleBorrower`),
  `WalkFindsBook` (`LookupNeverMisses`) and `NoLeak` (`NothingLeaks`).
* In `LendingProofs`, on top of these: `Implements` (`LendsBooks`), `FlagsAccounted`
  (`BorrowFlagAccounted`) and `ReturnSucceeds` (`ReturnNeverRefused`).

None of these but the type is inductive. `IInv` adds: the books are added before
the threads exist and deleted after they ended (`PhaseInv`); who is in a critical
section holds the lock (`LockInv`); what `old_b` and `new_b` are at each point of
the writers and the loader (`WriterInv`, `LoaderInv`); a walk stays among the
entries that are linked or were unlinked during its section, and the `next`
pointers of all these lead to such entries again (`ReaderInv`); a grace period
waits for every reader that may hold the entry (`GraceInv`); ids descend along the
list, so that the adding of a book does not duplicate an id (`OrderInv`); a lent
book is marked, so that nobody borrows it again (`FlagInv`). The argument for
memory safety is `ReaderInv` with `GraceInv`: an entry under a reader is linked, or
the reader is in `mayhold`, hence in `waits`, hence the callback is not enabled.
The step lemmas are by action: `AddBookStep`, `ManagerStep`, `FindStep`,
`MarkStep`, `ReplaceStep`, `RetireStep`, `RunCallbackStep`, `DeleteBookStep`,
`DeleteFreeStep`, and the steps that leave the list alone.

For the refinement `LendInv` adds to `IInv` that a flag is accounted for, and that
the book of a student that keeps it is on the shelf and was not given up; `LostInv`,
that nothing is given up while books are added. One lemma per action says that
`LendInv` is kept and that the step is one of `Lending` (`MarkLendStep`: `Borrow` or
`Return`; `ReturnFailLendStep`: `Forfeit`; `AddLendStep`: `Add`; `DeleteLendStep`:
`Remove`) or leaves shelf, loans and marks alone (`LendFrame` for the steps that touch
nothing of them, `ReplaceLendStep` for the copy that takes the place of the old
entry). Why a book is not lent twice, although the lookup and the store are two
steps: `KeeperAlone`, from `SingleBorrower`.

Why a lookup misses nothing: the `next` pointer of every entry a walk may stand on,
even of one that was taken off the list, skips no linked entry with a smaller id
(`AheadInv`), so a walk does not come past its book (`WalkInv`). It is
`ReplaceAheadStep` that matters: the copy takes the id of the old entry, and the old
entry keeps its `next`. Why nothing leaks: every entry in use that is not linked is
the new or the old entry of the thread at work, or waits for its callback
(`OwnerInv`), and `delete_book` has deleted the ids it has passed (`DeleteInv`), so
that none is left at the end of `rmmod`.

The pool, in `ProducerConsumerProofs` (from `ProducerConsumerAssumption`), for any
number of processes and any buffer: `TypeCorrect`, `Exclusion` (`MutualExclusion`),
`SlotsCounted` (`SlotAccounting`), `PeekSeesNames` (`PeekReadsNames`), `NameKept`
(`SlotKeptUntilPrinted`) and `ImplementsBuffer` (`PoolIsFifo`). `PoolInv` adds that
while the pool is set up one producer is at work and all others are off or at their
prompts (`StartingInv`), which makes the first good state one with nobody in a
critical section and `sync` up; that `full` and `empty`, with the processes between
their wait and their post, count the distance from `front` to `rear` (`CountInv`);
that a consumer keeps a printed name only until it posts `sync` (`OutInv`); and that
a slot without a name is found in the first round of a new file only, at `rear` or
after it, where nobody that prints the pool has come (`RingInv`), and a torn name
only at `rear` (`TornInv`), while the producer that has `sync` is at the copy. A
producer is past `sem_wait(empty)` when it writes, so by `CountInv` the slot is not
one whose name a consumer has yet to print: this is `NameKept`. For `PoolIsFifo` the
queue is the slots from `front` on, counted round the ring (`ContentsPut`,
`ContentsGet`); writing the slot at `rear` shows nothing, moving `rear` is `Put` and
moving `front` is `Get`.

`InductionLemmas` has what the next two need: a set of numbers has a least element,
hence induction up to n for a property given as a set, hence functions defined by
recursion exist and are unique. Sums that differ in one place differ by that much.

Banker, in `BankerProofs` (from `BankerAssumption`), for any numbers of processes
and resources: `Conserved` (`ResourcesConserved`) for all requests; and `Counts`
(`TypeOK`), `CheckIsExact` (`SafetyCheckExact`), `SafetyKept` (`StaysSafe`) and
`ImplementsSafeAllocation` (`AllOrNothing`) for requests that are not negative. The
code does not check for that (`NonNegative` is stated as an assumption of the
theorem and not of the module), and the run `banker_return` shows that without it
`Counts` fails; TLC finds that `StaysSafe` fails then, too. `SafetyCheck` is about
the loops of `IsSafety` at any size: what is in `finish` has been served in the
order of the sequence (`Sound`), and a pass without progress leaves a group none of
which can finish (`Stuck`), so that N passes (`RunEnds`) find all processes or prove
that no order does. `RollbackUndoes`: the matrices after trial and rollback are
those of before. In the refinement the matrices of the abstract allocator are those
before the trial as long as it may be rolled back (`MappedAvail`, `MappedAlloc`,
`MappedNeed`).

Page replacement, in `PageReplaceProofs` (from `PageReplaceAssumption`), for strings of
any length over any pages: `TypeCorrect`, `PagesDistinct` (`FramesDistinct`), `FifoAges`
(`FifoAgeIsTimeLoaded`), `LruAges` (`LruAgeIsTimeUnused`), `QueueFaultsReported`
(`FaultsOfQueue`) and `OptimalFewest` (`OptimalIsOptimal`). The ages are all
different, so the frames in the order of their ages are the queue of the reference
definition, and the frame with the greatest age is its head (`QueueInv`). That
Optimal is optimal is the exchange argument: of two sets of pages that differ in one
page, the set with the page that is used first needs no more faults from there on
(`Exchanges`, by induction from the end of the string back), so the victim that the
code chooses is as cheap as any (`BestVictim`), and the faults so far plus the fewest
to come never grow (`OptInv`).

Process synchronisation, in `ProcessSyncProofs` (from `ProcessSyncAssumption`), for
any set of runs, infinite ones included, and any `DATA_SIZE`: `TypeCorrect`,
`LastRemoves` (`SegmentRemoved`), `TakeTurns` (`OneAtATime`), `NoLostWakeup`
(`NobodyForgotten`) and `ReadsAll` (`ReadsComplete`). `BaseInv` says what a run
keeps at each point of its two processes; `NotedInv`, that whoever sets a segment up
while another run is at it has noted it in `disturbed`; `FiniteInv`, that finitely
many runs have a segment. `TokenInv`: from the first `sem_init` on the two
semaphores and the processes between a wait and a post are one token. `DebtInv`:
unless a process failed, the parents yet to post and the value of `sem_r` are no
more than the children that wait, and in a segment in order exactly as many, so that
each is served; and whoever a `sem_init` has made the semaphore forget is in a
segment that is not in order. `DataInv`: the cells that a parent has written, or a
child reads, are there; `sem_r` is up only for a full array. A step moves one run,
which is counted apart from the others (`CountOne`); `DebtInv` is then arithmetic.

The crashing version, in `KylinRcuCrashProofs` (from the assumptions of the library),
for any number of racing students: `StaleFaults` (`StaleSwapFaults`),
`MemoryStaysSafe` (`NoUseAfterFree`), `ListStaysWhole` (`ListOfBooks`),
`BorrowerFinds` (`BorrowerFindsBook`) and `ImplementsLending` (`CrashLendsBooks`).
Nothing of the proofs of `KylinRcu` that rests on `books_lock` holds here, so the
invariant `CrashInv` is another one. `ChainInv` is about the list alone, whoever works
on it: each entry that an open section may find leads to another such entry
(`ClosedInv`), and an entry off the list has lost its `prev` (`PoisonInv`). It is kept by
the operations on the list (`SwapsStep`, `TakesOffStep`, `AddsStep`, `FreesStep`, ...),
which say nothing of threads. `WorkerInv` puts what a thread holds among the entries its
section may find, and `OwnInv` gives each copy, and each entry that was taken off, to one
thread; a step does not disturb the others, because it spares what they may find and
own (`Spares`, `OtherKept`). So an entry that a student is about to replace is linked,
or is off the list and not free, hence poisoned (`OffTheList`): whether `prev` is
`LIST_POISON2` decides whether the swap is one of the list, and a swap that does not
fault is sound. For the loans `StudentInv` adds that the flag of an entry which was found
is as it was, since nobody stores into a published entry; that a book somebody has is
marked, and returned by nobody else (line 294), so that no second student comes to
replace its entry; and that of the entries
its section may find the one with the id of that book is on the list, and still ahead
of the walk. Most steps show nothing of themselves (`Quiet`, `QuietLent`); the swap is
`Borrow` or `Return` (`SwapLent`), a return that fails, in its lookup or for want of
memory, `Forfeit` (`ForfeitLent`).

Only model-checked: liveness (`rcu_live`, `pool_live`), since fairness and ENABLED are
beyond the prover. Every other property of a passing run is stated by a theorem; the
violations are counterexamples and need none.

## 6. What is not modelled

* The `synchronize_rcu` branch of the students' functions and the `call_rcu` branch
  of `delete_book`, which nobody takes.
* `library.c`: the functions of `kylin_rcu.c` under other names, which nothing calls.
  It has no `module_init`, no `delete_book` and no exit.
* What runs in the crashing version once its text is gone, and the ids whose
  return failed there (`lost` is not kept).
* A run of `process_sync.c` and one of `process_sync_sem.c` on the same segment,
  whose structures do not fit together. Of a `sem_init` under processes that sleep in
  `sem_wait`, which is undefined, the model has what glibc does (`asleep`), and
  `NobodyForgotten` says nothing of the segment from there on until all have left it:
  a run started at that moment can put another to sleep for ever.
* The exercises of one fork or one thread (lab-03, lab-04, `lab-05/fork.c`,
  `lab-05/thread.c`), the scheduler exercise of lab-07, whose main joins a thread that
  never ends, and `lab-08-banker/test.c`: they share no state.
* Weak memory: `list_replace_rcu` publishes with a release store and readers use
  dependent loads, so that steps in one order for all threads are enough here. The
  reads of `printShareData` are plain loads of an int each, and of the bytes of a name,
  which may be a mixture of two (`Torn`); which mixture is not modelled.
* Names of more than 15 characters, which `fgets` splits into two names.
* Widths of integers: no value comes near them.
* Output, except for which name a consumer prints, the safe sequence and the
  number of faults.

## 7. Plan

Done: the RCU library, the pool, the two sequential programs, the abstract library
and the proofs that both versions implement it, `ProcessSync`; and the proofs of all
safety properties of these. Next, without fairness: that the steps which the liveness
runs count on always come nearer to their goal, as invariants and action properties (a
grace period never gains a reader, `kthread_stop` is never waited for in vain), so that
only the fairness itself is left to TLC.
