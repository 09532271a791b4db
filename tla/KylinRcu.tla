----------------------------- MODULE KylinRcu ------------------------------
(***************************************************************************)
(* lab-06-RCULock/library/kylin_rcu.c: a library whose books are struct    *)
(* book entries of an RCU protected list.  Managers are readers, students  *)
(* are writers serialised by books_lock, and a student replaces the entry  *)
(* of a book by a changed copy and leaves the old one to call_rcu.  The    *)
(* module loader runs kylin_rcu_init and, on rmmod, kylin_rcu_exit.        *)
(***************************************************************************)
EXTENDS RcuList

CONSTANTS
  Students,   \* the tsk_student threads
  Managers,   \* the tsk_manager threads
  Loader,     \* the task that runs module_init and module_exit
  NoThread,   \* books_lock is free
  BookCount   \* BOOK_COUNT

ASSUME KylinRcuAssumption ==
  /\ Thread = Students \cup Managers \cup {Loader}
  /\ Students \cap Managers = {}
  /\ Loader \notin Students \cup Managers
  /\ NoThread \notin Thread
  /\ BookCount \in Nat \ {0}

VARIABLES
  id,       \* struct book.id
  borrow,   \* struct book.borrow
  lock,     \* who holds books_lock
  pc,       \* where each thread is
  book,     \* the id a thread works on: i of a manager or the loader
  cur,      \* b of a reader, old_b of a writer
  new,      \* new_b of a writer
  stop,     \* the threads kthread_stop was called for
  lost      \* history: the ids whose return_book failed for want of memory

bookvars == <<id, borrow>>
vars == <<listvars, bookvars, lock, pc, book, cur, new, stop, lost>>

Books == 0 .. BookCount - 1
Workers == Students \cup Managers

(* for(i = 0; i < BOOK_COUNT; i++), and the first id of the next such loop *)
NextBook(i) == IF i = BookCount - 1 THEN 0 ELSE i + 1

OnShelf(i) == {n \in Linked : id[n] = i}

Goto(t, from, to) == pc[t] = from /\ pc' = [pc EXCEPT ![t] = to]

Free == {n \in Node : heap[n] = "free"}

(* Before insmod.                                                          *)
Init ==
  /\ ListInit
  /\ id = [n \in Node |-> 0]
  /\ borrow = [n \in Node |-> 0]
  /\ lock = NoThread
  /\ pc = [t \in Thread |-> IF t = Loader THEN "add" ELSE "none"]
  /\ book = [t \in Thread |-> 0]
  /\ cur = [t \in Thread |-> HEAD]
  /\ new = [t \in Thread |-> HEAD]
  /\ stop = {}
  /\ lost = {}

-----------------------------------------------------------------------------
(* kylin_rcu_init                                                          *)

(* add_book for the next id: when kzalloc fails the book is left out.      *)
AddBook ==
  /\ \/ book[Loader] = BookCount - 1 /\ Goto(Loader, "add", "spawn")
     \/ book[Loader] # BookCount - 1 /\ pc[Loader] = "add" /\ UNCHANGED pc
  /\ lock = NoThread
  /\ book' = [book EXCEPT ![Loader] = NextBook(@)]
  /\ \/ UNCHANGED <<heap, next, prev, bookvars>>
     \/ \E n \in Free :
          /\ heap' = [heap EXCEPT ![n] = "linked"]
          /\ id' = [id EXCEPT ![n] = book[Loader]]
          /\ borrow' = [borrow EXCEPT ![n] = 0]
          /\ list_add_rcu(n)
  /\ UNCHANGED <<readers, waits, mayhold, lock, cur, new, stop, lost>>

(* kthread_run, the managers first.  A thread runs as soon as it exists;   *)
(* for one that cannot be created an error pointer is kept.                *)
Spawn(t) ==
  /\ pc[Loader] = "spawn" /\ pc[t] = "none"
  /\ t \in Students => \A m \in Managers : pc[m] # "none"
  /\ \E started \in {"loop", "err"} :
       pc' = [pc EXCEPT ![t] = started,
                        ![Loader] = IF \A u \in Workers \ {t} : pc[u] # "none"
                                    THEN "loaded" ELSE @]
  /\ UNCHANGED <<listvars, bookvars, lock, book, cur, new, stop, lost>>

-----------------------------------------------------------------------------
(* kthread_lab_manager and print_book                                      *)

(* Variant with a bug: while(1).                                           *)
ManagerLoop_NeverEnds(m) ==
  /\ Goto(m, "loop", "print_book")
  /\ book' = [book EXCEPT ![m] = 0]
  /\ UNCHANGED <<listvars, bookvars, lock, cur, new, stop, lost>>

(* while(!kthread_should_stop()): stop, or print the books from id 0.      *)
ManagerLoop(m) ==
  /\ \/ m \in stop /\ Goto(m, "loop", "off")
     \/ m \notin stop /\ Goto(m, "loop", "print_book")
  /\ book' = [book EXCEPT ![m] = 0]
  /\ UNCHANGED <<listvars, bookvars, lock, cur, new, stop, lost>>

ReadLock(m) ==
  /\ Goto(m, "print_book", "next")
  /\ rcu_read_lock(m)
  /\ cur' = [cur EXCEPT ![m] = HEAD]
  /\ UNCHANGED <<heap, next, prev, waits, mayhold, bookvars, lock, book, new,
                 stop, lost>>

(* One step of list_for_each_entry_rcu.                                    *)
ReadNext(m) ==
  /\ Goto(m, "next", "test")
  /\ cur' = [cur EXCEPT ![m] = next[cur[m]]]
  /\ UNCHANGED <<listvars, bookvars, lock, book, new, stop, lost>>

(* Neither the end of the list nor the book: walk on.                      *)
ReadOther(m) ==
  /\ Goto(m, "test", "next")
  /\ cur[m] # HEAD /\ id[cur[m]] # book[m]
  /\ UNCHANGED <<listvars, bookvars, lock, book, cur, new, stop, lost>>

(* The book is found: its other fields are printed, still in the section.  *)
ReadFound(m) ==
  /\ Goto(m, "test", "print")
  /\ cur[m] # HEAD /\ id[cur[m]] = book[m]
  /\ UNCHANGED <<listvars, bookvars, lock, book, cur, new, stop, lost>>

(* After the last entry ("not exist book") or after the pr_err: leave the  *)
(* section and go for the next id, after the last id to the loop.          *)
ReadUnlock(m) ==
  /\ pc[m] = "print" \/ (pc[m] = "test" /\ cur[m] = HEAD)
  /\ pc' = [pc EXCEPT ![m] = IF book[m] = BookCount - 1 THEN "loop"
                                                        ELSE "print_book"]
  /\ rcu_read_unlock(m)
  /\ book' = [book EXCEPT ![m] = NextBook(@)]
  /\ cur' = [cur EXCEPT ![m] = HEAD]
  /\ UNCHANGED <<heap, next, prev, bookvars, lock, new, stop, lost>>

Manager(m) ==
  \/ ManagerLoop(m) \/ ReadLock(m) \/ ReadNext(m) \/ ReadOther(m)
  \/ ReadFound(m) \/ ReadUnlock(m)

-----------------------------------------------------------------------------
(* kthread_student, borrow_book and return_book.  Both critical sections   *)
(* have the same shape: take books_lock, find the entry and allocate the   *)
(* copy, change the flag of the old entry, copy and replace it, unlock,    *)
(* call_rcu.                                                               *)

StudentLoop(s) ==
  /\ \/ s \in stop /\ Goto(s, "loop", "off") /\ UNCHANGED book
     \/ /\ s \notin stop /\ Goto(s, "loop", "borrow_book")
        /\ \E i \in Books : book' = [book EXCEPT ![s] = i]
  /\ UNCHANGED <<listvars, bookvars, lock, cur, new, stop, lost>>

(* Variant with a bug: books_lock excludes nobody.                         *)
spin_lock_None(s) == lock' = s

spin_lock(s) == lock = NoThread /\ lock' = s
spin_unlock(s) == lock' = NoThread

Lock(s, from, to) ==
  /\ Goto(s, from, to)
  /\ spin_lock(s)
  /\ UNCHANGED <<listvars, bookvars, book, cur, new, stop, lost>>

(* The entry n is the one to change and kzalloc gives a copy.              *)
Take(s, n, from, to) ==
  /\ Goto(s, from, to)
  /\ cur' = [cur EXCEPT ![s] = n]
  /\ \E c \in Node : kzalloc(c) /\ new' = [new EXCEPT ![s] = c]
  /\ UNCHANGED <<next, prev, readers, waits, mayhold, bookvars, lock, book,
                 stop, lost>>

(* goto err: unlock and return -1.                                         *)
Fail(s, from) ==
  /\ Goto(s, from, "loop")
  /\ spin_unlock(s)
  /\ UNCHANGED <<listvars, bookvars, book, cur, new, stop>>

(* Variant with a bug: the flag is never stored.                           *)
Mark_Forgotten(s, flag, from, to) ==
  /\ Goto(s, from, to)
  /\ UNCHANGED <<listvars, bookvars, lock, book, cur, new, stop, lost>>

(* old_b->borrow = flag: the store goes to the entry readers can see.      *)
Mark(s, flag, from, to) ==
  /\ Goto(s, from, to)
  /\ borrow' = [borrow EXCEPT ![cur[s]] = flag]
  /\ UNCHANGED <<listvars, id, lock, book, cur, new, stop, lost>>

(* The copy new_b, with its flag, is published; old_b begins its life off  *)
(* the list.                                                               *)
Publish(s, from, to, life, flag) ==
  /\ Goto(s, from, to)
  /\ id' = [id EXCEPT ![new[s]] = id[cur[s]]]
  /\ borrow' = [borrow EXCEPT ![new[s]] = flag]
  /\ heap' = [heap EXCEPT ![cur[s]] = life, ![new[s]] = "linked"]
  /\ Unlink(cur[s])
  /\ new' = [new EXCEPT ![s] = HEAD]
  /\ UNCHANGED <<readers, waits, book, cur, stop, lost>>

(* Variants with a bug: the copy is made before the flag is stored; the    *)
(* copy is added and the old entry never taken off the list; the old entry *)
(* is taken off and the copy added in front.                               *)
Replace_CopyFirst(s, from, to) ==
  /\ Publish(s, from, to, "unlinked", 1 - borrow[cur[s]])
  /\ list_replace_rcu(cur[s], new[s]) /\ spin_unlock(s)

Replace_AddOnly(s, from, to) ==
  /\ Publish(s, from, to, "linked", borrow[cur[s]])
  /\ list_add_rcu(new[s]) /\ spin_unlock(s)

Replace_ToFront(s, from, to) ==
  LET o == cur[s]
      n == new[s]
      after == [next EXCEPT ![prev[o]] = next[o]]
      before == [prev EXCEPT ![next[o]] = prev[o], ![o] = POISON]
  IN /\ Publish(s, from, to, "unlinked", borrow[o]) /\ spin_unlock(s)
     /\ next' = [after EXCEPT ![n] = after[HEAD], ![HEAD] = n]
     /\ prev' = [before EXCEPT ![n] = HEAD, ![after[HEAD]] = n]

(* memcpy(new_b, old_b), list_replace_rcu, spin_unlock.                    *)
Replace(s, from, to) ==
  /\ Publish(s, from, to, "unlinked", borrow[cur[s]])
  /\ list_replace_rcu(cur[s], new[s]) /\ spin_unlock(s)

(* Variants with a bug: kfree(old_b) without a grace period; old_b is left *)
(* to nobody.                                                              *)
Retire_KfreeNow(s, from, to) ==
  /\ Goto(s, from, to)
  /\ kfree(cur[s])
  /\ cur' = [cur EXCEPT ![s] = HEAD]
  /\ UNCHANGED <<readers, waits, mayhold, bookvars, lock, book, new, stop, lost>>

Retire_Leak(s, from, to) ==
  /\ Goto(s, from, to)
  /\ cur' = [cur EXCEPT ![s] = HEAD]
  /\ UNCHANGED <<listvars, bookvars, lock, book, new, stop, lost>>

(* call_rcu(&old_b->rcu, book_reclaim_callback), return 0.                 *)
Retire(s, from, to) ==
  /\ Goto(s, from, to)
  /\ call_rcu(cur[s])
  /\ cur' = [cur EXCEPT ![s] = HEAD]
  /\ UNCHANGED <<next, prev, readers, mayhold, bookvars, lock, book, new, stop,
                 lost>>

BorrowLock(s) == Lock(s, "borrow_book", "borrow_find")

(* Variant with a bug: b->borrow is not looked at.                         *)
BorrowFind_Unchecked(s) ==
  \E n \in OnShelf(book[s]) : Take(s, n, "borrow_find", "borrow_mark")

BorrowFind(s) ==
  \E n \in OnShelf(book[s]) :
    borrow[n] = 0 /\ Take(s, n, "borrow_find", "borrow_mark")

(* "no such book", "not available", or kzalloc has returned NULL, which it *)
(* can do at any time.                                                     *)
BorrowFail(s) == Fail(s, "borrow_find") /\ UNCHANGED lost

BorrowMark(s) == Mark(s, 1, "borrow_mark", "borrow_replace")
BorrowReplace(s) == Replace(s, "borrow_replace", "borrow_retire")

(* A student that got the book keeps it for an msleep ("reading").         *)
BorrowRetire(s) == Retire(s, "borrow_retire", "reading")

ReturnLock(s) == Lock(s, "reading", "return_find")

Returnable(i) == {n \in OnShelf(i) : borrow[n] = 1}

ReturnFind(s) ==
  \E n \in Returnable(book[s]) : Take(s, n, "return_find", "return_mark")

(* return_book gives up, and kthread_student ignores its result: when it   *)
(* is the copy that could not be allocated, the book stays marked as       *)
(* borrowed with nobody left to return it.                                 *)
ReturnFail(s) ==
  /\ Fail(s, "return_find")
  /\ lost' = lost \cup {i \in {book[s]} : Returnable(i) # {}}

ReturnMark(s) == Mark(s, 0, "return_mark", "return_replace")
ReturnReplace(s) == Replace(s, "return_replace", "return_retire")
ReturnRetire(s) == Retire(s, "return_retire", "loop")

Student(s) ==
  \/ StudentLoop(s)
  \/ BorrowLock(s) \/ BorrowFind(s) \/ BorrowFail(s) \/ BorrowMark(s)
  \/ BorrowReplace(s) \/ BorrowRetire(s)
  \/ ReturnLock(s) \/ ReturnFind(s) \/ ReturnFail(s) \/ ReturnMark(s)
  \/ ReturnReplace(s) \/ ReturnRetire(s)

-----------------------------------------------------------------------------
(* Variant with a bug: the callback does not kfree.                        *)
RunCallback_NoKfree(n) ==
  /\ heap[n] = "queued" /\ GracePeriodOver(n)
  /\ pc[Loader] # "unloaded"
  /\ UNCHANGED vars

(* book_reclaim_callback, run by the kernel some time after the grace      *)
(* period, as long as the module's text is there.                          *)
RunCallback(n) ==
  /\ heap[n] = "queued" /\ GracePeriodOver(n)
  /\ pc[Loader] # "unloaded"
  /\ kfree(n)
  /\ id' = [id EXCEPT ![n] = 0]
  /\ borrow' = [borrow EXCEPT ![n] = 0]
  /\ UNCHANGED <<readers, waits, mayhold, lock, pc, book, cur, new, stop, lost>>

-----------------------------------------------------------------------------
(* kylin_rcu_exit                                                          *)

Rmmod ==
  /\ Goto(Loader, "loaded", "stop")
  /\ UNCHANGED <<listvars, bookvars, lock, book, cur, new, stop, lost>>

(* kthread_stop(t) returns when t has ended; the managers first.           *)
NextToStop(t) ==
  /\ pc[Loader] = "stop" /\ t \notin stop
  /\ \A u \in stop : pc[u] = "off"
  /\ t \in Students => Managers \subseteq stop

KthreadStop(t) ==
  /\ NextToStop(t) /\ pc[t] # "err"
  /\ stop' = stop \cup {t}
  /\ UNCHANGED <<listvars, bookvars, lock, pc, book, cur, new, lost>>

(* kthread_stop of an error pointer is a wild access: rmmod dies.          *)
KthreadStopErr(t) ==
  /\ NextToStop(t) /\ pc[t] = "err"
  /\ Goto(Loader, "stop", "oops")
  /\ UNCHANGED <<listvars, bookvars, lock, book, cur, new, stop, lost>>

AllStopped ==
  /\ Workers \subseteq stop /\ \A u \in stop : pc[u] = "off"
  /\ Goto(Loader, "stop", "delete")
  /\ UNCHANGED <<listvars, bookvars, lock, book, cur, new, stop, lost>>

(* Variant with a bug: i <= BOOK_COUNT.                                    *)
NextDelete_OneMore(from) ==
  /\ Goto(Loader, from, IF book[Loader] = BookCount THEN "unloaded"
                                                    ELSE "delete")
  /\ book' = [book EXCEPT ![Loader] = @ + 1]

(* The loop for(i = 0; i < BOOK_COUNT; i++), one id further.               *)
NextDelete(from) ==
  /\ Goto(Loader, from, IF book[Loader] = BookCount - 1 THEN "unloaded"
                                                        ELSE "delete")
  /\ book' = [book EXCEPT ![Loader] = NextBook(@)]

(* delete_book(i, RCU_SYNC) up to synchronize_rcu.                         *)
DeleteBook ==
  /\ lock = NoThread
  /\ \E n \in OnShelf(book[Loader]) :
       /\ Goto(Loader, "delete", "synchronize_rcu")
       /\ list_del_rcu(n)
       /\ heap' = [heap EXCEPT ![n] = "unlinked"]
       /\ Unlink(n)
       /\ StartGracePeriod(n)
       /\ cur' = [cur EXCEPT ![Loader] = n]
  /\ UNCHANGED <<readers, bookvars, lock, book, new, stop, lost>>

(* "not exist book"                                                        *)
DeleteNone ==
  /\ lock = NoThread /\ OnShelf(book[Loader]) = {}
  /\ NextDelete("delete")
  /\ UNCHANGED <<listvars, bookvars, lock, cur, new, stop, lost>>

(* synchronize_rcu has returned: kfree(b).                                 *)
DeleteFree ==
  /\ NextDelete("synchronize_rcu")
  /\ GracePeriodOver(cur[Loader])
  /\ kfree(cur[Loader])
  /\ id' = [id EXCEPT ![cur[Loader]] = 0]
  /\ borrow' = [borrow EXCEPT ![cur[Loader]] = 0]
  /\ cur' = [cur EXCEPT ![Loader] = HEAD]
  /\ UNCHANGED <<readers, waits, mayhold, lock, new, stop, lost>>

Exit == AllStopped \/ DeleteBook \/ DeleteNone \/ DeleteFree

(* Nothing is left to run once the module is gone, or when rmmod died and  *)
(* no thread was started.                                                  *)
Finished == pc[Loader] \in {"unloaded", "oops"} /\ UNCHANGED vars

-----------------------------------------------------------------------------
Next ==
  \/ AddBook
  \/ \E t \in Workers : Spawn(t)
  \/ \E m \in Managers : Manager(m)
  \/ \E s \in Students : Student(s)
  \/ \E n \in Node : RunCallback(n)
  \/ Rmmod
  \/ \E t \in Workers : KthreadStop(t) \/ KthreadStopErr(t)
  \/ Exit
  \/ Finished

Spec == Init /\ [][Next]_vars

(* A thread that can run does so in the end.  books_lock is a queued spin  *)
(* lock: who waits for it gets it, which is strong fairness of a student.  *)
(* A grace period that is over is noticed and its callback runs, and       *)
(* kthread_stop goes on once the thread it waits for has ended.  Nobody is *)
(* obliged to call rmmod.                                                  *)
FairSpec ==
  /\ Spec
  /\ \A m \in Managers : WF_vars(Manager(m))
  /\ \A s \in Students : SF_vars(Student(s))
  /\ \A n \in Node : WF_vars(RunCallback(n))
  /\ WF_vars((\E t \in Workers : KthreadStop(t)) \/ Exit)

-----------------------------------------------------------------------------
WorkerPC ==
  {"none", "loop", "off", "err",
   "print_book", "next", "test", "print",
   "borrow_book", "borrow_find", "borrow_mark", "borrow_replace",
   "borrow_retire", "reading", "return_find", "return_mark",
   "return_replace", "return_retire"}

LoaderPC ==
  {"add", "spawn", "loaded", "stop", "delete", "synchronize_rcu", "unloaded",
   "oops"}

TypeOK ==
  /\ ListTypeOK
  /\ id \in [Node -> Books]
  /\ borrow \in [Node -> {0, 1}]
  /\ lock \in Thread \cup {NoThread}
  /\ pc \in [Thread -> WorkerPC \cup LoaderPC]
  /\ book \in [Thread -> Books]
  /\ cur \in [Thread -> Entry]
  /\ new \in [Thread -> Entry]
  /\ stop \in SUBSET Workers
  /\ lost \in SUBSET Books

(* No thread ever stands on memory that was freed, or that another thread  *)
(* got from kzalloc since: neither a manager that walks the list while     *)
(* students replace its entries and the callbacks free them, nor a student *)
(* between list_replace_rcu and call_rcu, nor the loader before its kfree. *)
NoUseAfterFree ==
  \A t \in Thread : cur[t] # HEAD => heap[cur[t]] \notin {"free", "fresh"}

(* An entry that is off the list is seen only by a section that began      *)
(* before it was replaced: print_book never reports a state of a book that *)
(* was already replaced when it was called.                                *)
StaleOnlyInOldSections ==
  \A m \in readers :
    cur[m] \in Node \ Linked => m \in mayhold[cur[m]]

(* print_book says "not exist book" only of a book that is not there: a    *)
(* walk that met any number of replacements does not miss an entry.        *)
LookupNeverMisses ==
  \A m \in Managers :
    pc[m] = "test" /\ cur[m] = HEAD => OnShelf(book[m]) = {}

(* A list closed in both directions, through linked entries only.          *)
ListWellFormed ==
  \A e \in Linked \cup {HEAD} :
    /\ next[e] \in Linked \cup {HEAD} /\ prev[next[e]] = e
    /\ prev[e] \in Linked \cup {HEAD} /\ next[prev[e]] = e

OneEntryPerBook ==
  \A m, n \in Linked : id[m] = id[n] => m = n

(* The list the next walk finds is whole, and a replaced entry does not    *)
(* stay on it beside its copy.                                             *)
ListOfBooks == ListWellFormed /\ OneEntryPerBook

(* s has found the book available and not yet given it back.               *)
Holds(s, i) ==
  /\ book[s] = i
  /\ pc[s] \in {"borrow_mark", "borrow_replace", "borrow_retire", "reading",
                "return_find", "return_mark", "return_replace"}

(* A book is lent to one student at a time.                                *)
SingleBorrower ==
  \A i \in Books, s, t \in Students : Holds(s, i) /\ Holds(t, i) => s = t

(* Nobody's copy of the flag is lost: an entry on the list says borrowed   *)
(* exactly when a student that marked it still has to mark it back, or     *)
(* when its return failed for want of memory.                              *)
BorrowFlagAccounted ==
  \A n \in Linked :
    borrow[n] = 1 <=> \/ id[n] \in lost
                      \/ \E s \in Students :
                           /\ Holds(s, id[n])
                           /\ pc[s] \notin {"borrow_mark", "return_replace"}

(* A student that got a book is never told that it cannot return it: the   *)
(* entry is still there and still says borrowed.                           *)
ReturnNeverRefused ==
  \A s \in Students : pc[s] = "return_find" => Returnable(book[s]) # {}

(* Every struct book off the list has one owner that will free it, so none *)
(* is leaked: a private copy and an unlinked entry belong to one thread,   *)
(* and after rmmod only the queue of call_rcu holds any.                   *)
NothingLeaks ==
  /\ \A n \in Node :
       /\ heap[n] = "fresh" => \E t \in Thread : new[t] = n
       /\ heap[n] = "unlinked" => \E t \in Thread \ readers : cur[t] = n
  /\ \A t, u \in Thread \ readers :
       t # u => /\ new[t] = new[u] => new[t] = HEAD
                /\ cur[t] = cur[u] => cur[t] = HEAD
  /\ pc[Loader] = "unloaded" => \A n \in Node : heap[n] \in {"free", "queued"}

(* The memory of a replaced entry comes back while the module is there,    *)
(* however often managers walk the list.                                   *)
Reclaimed ==
  \A n \in Node :
    heap[n] = "queued" ~> heap[n] = "free" \/ pc[Loader] = "unloaded"

(* rmmod returns: every thread sees kthread_stop, and none waits for ever  *)
(* for books_lock or for a grace period.  That needs every kthread_run to  *)
(* have succeeded, whose result nobody looks at.                           *)
RmmodReturns ==
  pc[Loader] = "stop" /\ (\A t \in Workers : pc[t] # "err")
    ~> pc[Loader] = "unloaded"

(* The library of Lending: which books it has, who has one of them, from   *)
(* the store of the flag on, and what readers see of it.                   *)
Shelf == {i \in Books : OnShelf(i) # {}}
Marked == {i \in Books : \E n \in OnShelf(i) : borrow[n] = 1}
Loans ==
  {l \in Students \X Books :
     Holds(l[1], l[2]) /\ pc[l[1]] \notin {"borrow_mark", "return_replace"}}

Library == INSTANCE Lending WITH shelf <- Shelf, loans <- Loans, marked <- Marked

(* Whatever readers and callbacks do in between, borrow_book, return_book, *)
(* add_book and delete_book take effect in one step each, and never twice. *)
LendsBooks == Library!LendSpec

(* What library.c:119 says of a student: who borrows a book returns it, so *)
(* that a book marked as borrowed is in somebody's hands.                  *)
BorrowedHasHolder ==
  \A n \in Linked : borrow[n] = 1 => \E s \in Students : Holds(s, id[n])

(* What kylin_rcu.c:41 says of call_rcu: the callback is called when the   *)
(* grace period is over.  The module is not gone before that.              *)
CallbackBeforeUnload ==
  pc[Loader] = "unloaded" => \A n \in Node : heap[n] # "queued"
=============================================================================
