--------------------------- MODULE KylinRcuCrash ---------------------------
(***************************************************************************)
(* lab-06-RCULock/library/kylin_rcu_crash.c: the library before its        *)
(* locking was mended.  borrow_book and return_book look the book up in an *)
(* RCU section, like readers, and take books_lock for list_replace_rcu     *)
(* alone, so that two students can be about to replace the same entry; and *)
(* kylin_rcu_exit does not stop the threads but clears on_duty and sleeps. *)
(* Everything else is the text of kylin_rcu.c.                             *)
(*                                                                         *)
(* The second student stores through the LIST_POISON2 that the first one   *)
(* left in old_b->node.prev, faults, and dies with books_lock held, while  *)
(* the other threads go on.  rcu-debug.txt reports such faults in          *)
(* borrow_book (lines 81-148, "exited with preempt_count 1", and 219-250). *)
(* The one in return_book (lines 164-215) is of another text: there a      *)
(* student whose borrow_book had failed calls return_book all the same,    *)
(* and two students give back one book.  The check of the result           *)
(* (kylin_rcu_crash.c:294) leaves the race to those that borrow.           *)
(***************************************************************************)
EXTENDS KylinRcu

(* Before insmod.  on_duty = 1 is stop = {} here, on_duty = 0 stops all    *)
(* threads at once.                                                        *)
CrashInit == Init

-----------------------------------------------------------------------------
(* Unchanged functions: kylin_rcu_init, print_book, the callback, and      *)
(* delete_book, which looks the book up under books_lock.                  *)

CrashInsmod == AddBook \/ \E t \in Workers : Spawn(t)
CrashPrintBook(m) ==
  ReadLock(m) \/ ReadNext(m) \/ ReadOther(m) \/ ReadFound(m) \/ ReadUnlock(m)
CrashManager(m) == ManagerLoop(m) \/ CrashPrintBook(m)
CrashCallback(n) == RunCallback(n)
CrashDeleteBook == DeleteBook \/ DeleteNone \/ DeleteFree

-----------------------------------------------------------------------------
(* kthread_student                                                         *)

CrashStudentLoop(s) == StudentLoop(s)

(* Variant with a bug: the lookup is not a section.                        *)
LookupLock_None(s) ==
  /\ \/ Goto(s, "borrow_book", "borrow_next")
     \/ Goto(s, "reading", "return_next")
  /\ UNCHANGED <<listvars, bookvars, lock, book, cur, new, stop, lost>>

(* rcu_read_lock; a return begins when the msleep after the loan is over.  *)
LookupLock(s) ==
  /\ \/ Goto(s, "borrow_book", "borrow_next")
     \/ Goto(s, "reading", "return_next")
  /\ rcu_read_lock(s)
  /\ UNCHANGED <<heap, next, prev, waits, mayhold, bookvars, lock, book, cur,
                 new, stop, lost>>

(* One turn of list_for_each_entry: to the next entry, which is not it.    *)
LookupNext(s) ==
  LET n == next[cur[s]]
  IN /\ pc[s] \in {"borrow_next", "return_next"}
     /\ n # HEAD /\ id[n] # book[s]
     /\ cur' = [cur EXCEPT ![s] = n]
     /\ UNCHANGED <<listvars, bookvars, lock, pc, book, new, stop, lost>>

(* Variant with a bug: b->borrow is not looked at.                         *)
LookupFound_Unchecked(s, flag, from, to) ==
  LET n == next[cur[s]]
  IN /\ Goto(s, from, to)
     /\ n # HEAD /\ id[n] = book[s]
     /\ cur' = [cur EXCEPT ![s] = n]
     /\ UNCHANGED <<listvars, bookvars, lock, book, new, stop, lost>>

(* The next entry is the one, in the state flag.                           *)
LookupFound(s, flag, from, to) ==
  LET n == next[cur[s]]
  IN /\ Goto(s, from, to)
     /\ n # HEAD /\ id[n] = book[s] /\ borrow[n] = flag
     /\ cur' = [cur EXCEPT ![s] = n]
     /\ UNCHANGED <<listvars, bookvars, lock, book, new, stop, lost>>

(* Leave the section with -1, to which the student goes on with to.        *)
GiveUp(s, from, to) ==
  /\ Goto(s, from, to)
  /\ cur' = [cur EXCEPT ![s] = HEAD]
  /\ rcu_read_unlock(s)
  /\ UNCHANGED <<heap, next, prev, bookvars, lock, book, new, stop, lost>>

(* The end of the list, or the book in the other state.                    *)
Unavailable(s, flag) ==
  next[cur[s]] \in {HEAD} \cup {n \in Node : id[n] = book[s] /\ borrow[n] # flag}

(* Variant with a bug, that of rcu-debug.txt: a student whose borrow_book  *)
(* has failed waits and calls return_book.                                 *)
LookupFailed_Returns(s, flag, from) ==
  /\ Unavailable(s, flag)
  /\ GiveUp(s, from, IF flag = 0 THEN "reading" ELSE "loop")

(* "no such book" or "not available".  A student that got no book does not *)
(* return it; the result of return_book is ignored (lost is not kept).     *)
LookupFailed(s, flag, from) == Unavailable(s, flag) /\ GiveUp(s, from, "loop")

(* kzalloc gives a copy, whose contents are settled: no entry changes once *)
(* it is published.                                                        *)
CopyBook(s, from, to) ==
  /\ Goto(s, from, to)
  /\ \E c \in Node : kzalloc(c) /\ new' = [new EXCEPT ![s] = c]
  /\ UNCHANGED <<next, prev, readers, waits, mayhold, bookvars, lock, book,
                 cur, stop, lost>>

(* kzalloc returns NULL, which it can do at any time.                      *)
NoMemory(s, from) == GiveUp(s, from, "loop")

(* Variant with a bug: the store through old->prev does not fault.         *)
Swap_Unguarded(s, flag, from, to) ==
  /\ lock = NoThread
  /\ Publish(s, from, to, "unlinked", flag)
  /\ list_replace_rcu(cur[s], new[s]) /\ UNCHANGED lock

(* spin_lock, list_replace_rcu and spin_unlock, the copy with its flag:    *)
(* one step, since the list changes only under books_lock and readers see  *)
(* one store.                                                              *)
Swap(s, flag, from, to) ==
  /\ lock = NoThread /\ prev[cur[s]] # POISON
  /\ Publish(s, from, to, "unlinked", flag)
  /\ list_replace_rcu(cur[s], new[s]) /\ UNCHANGED lock

(* new->prev->next = new, with new->prev = old->prev = LIST_POISON2: the   *)
(* fault kills the thread.  Its section ends with it, books_lock stays     *)
(* held and the copy is lost.                                              *)
Fault(s, from, to) ==
  /\ Goto(s, from, to)
  /\ lock = NoThread /\ prev[cur[s]] = POISON
  /\ lock' = s
  /\ cur' = [cur EXCEPT ![s] = HEAD]
  /\ rcu_read_unlock(s)
  /\ UNCHANGED <<heap, next, prev, bookvars, book, new, stop, lost>>

(* rcu_read_unlock, before call_rcu gets old_b.                            *)
SwapUnlock(s) ==
  /\ \/ Goto(s, "borrow_unlock", "borrow_retire")
     \/ Goto(s, "return_unlock", "return_retire")
  /\ rcu_read_unlock(s)
  /\ UNCHANGED <<heap, next, prev, bookvars, lock, book, cur, new, stop, lost>>

CrashBorrow(s) ==
  \/ LookupFound(s, 0, "borrow_next", "borrow_copy")
  \/ LookupFailed(s, 0, "borrow_next")
  \/ CopyBook(s, "borrow_copy", "borrow_swap")
  \/ NoMemory(s, "borrow_copy")
  \/ Swap(s, 1, "borrow_swap", "borrow_unlock")
  \/ Fault(s, "borrow_swap", "oops")
  \/ BorrowRetire(s)

CrashReturn(s) ==
  \/ LookupFound(s, 1, "return_next", "return_copy")
  \/ LookupFailed(s, 1, "return_next")
  \/ CopyBook(s, "return_copy", "return_swap")
  \/ NoMemory(s, "return_copy")
  \/ Swap(s, 0, "return_swap", "return_unlock")
  \/ Fault(s, "return_swap", "oops")
  \/ ReturnRetire(s)

CrashStudent(s) ==
  \/ CrashStudentLoop(s) \/ LookupLock(s) \/ LookupNext(s) \/ CrashBorrow(s)
  \/ SwapUnlock(s) \/ CrashReturn(s)

-----------------------------------------------------------------------------
(* kylin_rcu_exit: on_duty = 0, and after an msleep of any length, however *)
(* far the threads have come, the books are deleted.                       *)
OffDuty ==
  /\ Goto(Loader, "loaded", "delete")
  /\ stop' = Workers
  /\ UNCHANGED <<listvars, bookvars, lock, book, cur, new, lost>>

(* Once the text of the module is gone no thread of it can go on.          *)
CrashNext ==
  \/ CrashInsmod
  \/ /\ pc[Loader] # "unloaded"
     /\ \/ \E m \in Managers : CrashManager(m)
        \/ \E s \in Students : CrashStudent(s)
        \/ \E n \in Node : CrashCallback(n)
  \/ OffDuty
  \/ CrashDeleteBook

CrashSpec == CrashInit /\ [][CrashNext]_vars

-----------------------------------------------------------------------------
(* A student that is about to replace an entry that somebody else replaced *)
(* or deleted meanwhile always runs into LIST_POISON2: its section keeps   *)
(* the entry from being freed and used for another book, whose list it     *)
(* would corrupt without a fault.                                          *)
StaleSwapFaults ==
  \A s \in Students :
    pc[s] \in {"borrow_swap", "return_swap"} =>
      /\ id[cur[s]] = book[s]
      /\ cur[s] \notin Linked => prev[cur[s]] = POISON

(* The race is left to those that borrow, because a student returns only   *)
(* what it has borrowed (line 294): one that has a book finds it, marked,  *)
(* although its lookup takes no lock, and nobody replaces it under its     *)
(* hands, until the module deletes its books.  Without that check somebody *)
(* does, and it faults in return_book (rcu-debug.txt:174-187).             *)
BorrowerFindsBook ==
  \A s \in Students :
    OnShelf(book[s]) # {} =>
      /\ pc[s] = "return_next" => /\ next[cur[s]] # HEAD
                                  /\ next[cur[s]] \in Returnable(book[s])
                                     \/ id[next[cur[s]]] # book[s]
      /\ pc[s] \in {"return_copy", "return_swap"} => cur[s] \in Linked

(* A book is lent from its replacement on, until it is deleted.            *)
CrashLoans ==
  {l \in Students \X Books :
     /\ book[l[1]] = l[2] /\ OnShelf(l[2]) # {}
     /\ pc[l[1]] \in {"borrow_unlock", "borrow_retire", "reading", "return_next",
                      "return_copy", "return_swap"}}

CrashLibrary == INSTANCE Lending WITH
  shelf <- Shelf, loans <- CrashLoans, marked <- Marked

(* Even this version lends no book twice: what the race does is to kill    *)
(* students, before they have a book, and to stop the library.             *)
CrashLendsBooks == CrashLibrary!LendSpec
=============================================================================
