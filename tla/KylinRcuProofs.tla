--------------------------- MODULE KylinRcuProofs ---------------------------
(***************************************************************************)
(* Theorems of KylinRcu for any number of students, managers, books and    *)
(* addresses: no thread stands on freed memory, the list stays well        *)
(* formed, a book is lent to one student at a time, a lookup misses no     *)
(* book, and no memory is lost.                                            *)
(***************************************************************************)
EXTENDS KylinRcu, TLAPS

Locked == {"borrow_find", "borrow_mark", "borrow_replace",
           "return_find", "return_mark", "return_replace"}
Changing == {"borrow_mark", "borrow_replace", "return_mark", "return_replace"}
Retiring == {"borrow_retire", "return_retire"}
Reading == {"next", "test", "print"}
Gone == {"delete", "synchronize_rcu", "unloaded"}

(* The entries m may find by following next pointers.                      *)
MaySee(m) == Linked \cup {HEAD} \cup {n \in Node : m \in mayhold[n]}

(* Books are added before the threads exist and deleted when they ended.   *)
PhaseInv ==
  /\ pc[Loader] = "add" => \A t \in Workers : pc[t] = "none"
  /\ pc[Loader] \in Gone => \A t \in Workers : pc[t] = "off"

LockInv == \A s \in Students : pc[s] \in Locked => lock = s

(* What old_b and new_b are at each point of borrow_book and return_book.  *)
WriterInv ==
  /\ \A s \in Students :
       /\ pc[s] \in Changing => /\ cur[s] \in Linked /\ id[cur[s]] = book[s]
                                /\ new[s] \in Node /\ heap[new[s]] = "fresh"
       /\ pc[s] \in Retiring => cur[s] \in Node /\ heap[cur[s]] = "unlinked"
       /\ pc[s] \notin Changing \cup Retiring => cur[s] = HEAD
  /\ \A s, t \in Students :
       pc[s] \in Retiring /\ pc[t] \in Retiring /\ cur[s] = cur[t] => s = t

LoaderInv ==
  IF pc[Loader] = "synchronize_rcu"
  THEN /\ cur[Loader] \in Node /\ heap[cur[Loader]] = "unlinked"
       /\ mayhold[cur[Loader]] \subseteq waits[cur[Loader]]
  ELSE cur[Loader] = HEAD

(* A walk stays among the entries that are linked, or that were unlinked   *)
(* while its section was open.                                             *)
ReaderInv ==
  /\ readers = {m \in Managers : pc[m] \in Reading}
  /\ \A m \in Managers \ readers : cur[m] = HEAD
  /\ \A m \in readers :
       /\ cur[m] \in MaySee(m)
       /\ \A e \in MaySee(m) : next[e] \in MaySee(m)

(* A grace period waits for every reader that may hold the entry.          *)
GraceInv ==
  \A n \in Node :
    /\ mayhold[n] # {} => heap[n] \in {"unlinked", "queued"}
    /\ mayhold[n] \subseteq readers
    /\ heap[n] = "queued" => mayhold[n] \subseteq waits[n]

(* add_book puts a larger id in front, list_replace_rcu keeps the place.   *)
OrderInv ==
  /\ \A n \in Linked : next[n] \in Linked => id[next[n]] < id[n]
  /\ OneEntryPerBook
  /\ pc[Loader] = "add" => \A n \in Linked : id[n] < book[Loader]

(* The flag of a book that is lent.                                        *)
FlagInv ==
  \A s \in Students :
    pc[s] \notin {"borrow_mark", "return_replace"} /\ Holds(s, book[s]) =>
      \A n \in OnShelf(book[s]) : borrow[n] = 1

IInv ==
  /\ TypeOK /\ PhaseInv /\ LockInv /\ WriterInv /\ LoaderInv /\ ReaderInv
  /\ GraceInv /\ ListWellFormed /\ OrderInv /\ FlagInv /\ SingleBorrower

-----------------------------------------------------------------------------
LEMMA NextBookFacts ==
  ASSUME NEW i \in Books
  PROVE  /\ NextBook(i) \in Books
         /\ i # BookCount - 1 => i < NextBook(i)
BY KylinRcuAssumption DEF NextBook, Books

LEMMA ZeroBook == 0 \in Books
BY KylinRcuAssumption DEF Books

LEMMA InitIInv == Init => IInv
<1> SUFFICES ASSUME Init PROVE IInv OBVIOUS
<1> USE RcuListAssumption, KylinRcuAssumption
<1>1. TypeOK
  BY DEF Init, ListInit, TypeOK, ListTypeOK, Entry, Life, Books, WorkerPC,
         LoaderPC
<1>2. Linked = {}
  BY DEF Init, ListInit, Linked
<1>3. /\ PhaseInv /\ LockInv /\ WriterInv /\ LoaderInv
      /\ FlagInv /\ SingleBorrower
  BY DEF Init, ListInit, PhaseInv, LockInv, WriterInv, LoaderInv, FlagInv,
         SingleBorrower, Holds, Workers, Gone, Locked, Changing, Retiring
<1>4. ReaderInv /\ GraceInv
  BY DEF Init, ListInit, ReaderInv, GraceInv, Reading
<1>5. ListWellFormed /\ OrderInv
  BY <1>2 DEF Init, ListInit, ListWellFormed, OrderInv, OneEntryPerBook, Entry
<1> QED BY <1>1, <1>3, <1>4, <1>5 DEF IInv

(* What a step that leaves the list and the books alone keeps.             *)
LEMMA QuietStep ==
  ASSUME IInv, UNCHANGED <<listvars, bookvars>>
  PROVE  /\ GraceInv' /\ ListWellFormed'
         /\ Linked' = Linked /\ \A m \in Thread : MaySee(m)' = MaySee(m)
         /\ OneEntryPerBook'
BY DEF IInv, listvars, bookvars, GraceInv, ListWellFormed, Linked, MaySee,
       OrderInv, OneEntryPerBook

(* The loader before and after the life of the threads, list untouched.    *)
LEMMA LoaderQuietStep ==
  ASSUME IInv,
         \/ \E t \in Workers : Spawn(t)
         \/ Rmmod
         \/ \E t \in Workers : KthreadStop(t) \/ KthreadStopErr(t)
         \/ AllStopped
         \/ DeleteNone
  PROVE  IInv'
<1> USE RcuListAssumption, KylinRcuAssumption
<1> USE DEF Spawn, Rmmod, KthreadStop, KthreadStopErr, NextToStop, AllStopped,
            DeleteNone, NextDelete, Goto
<1>0. UNCHANGED <<listvars, bookvars>> /\ UNCHANGED <<lock, cur, new, lost>>
  OBVIOUS
<1>1. TypeOK'
  BY <1>0, NextBookFacts
     DEF IInv, TypeOK, ListTypeOK, listvars, bookvars, Workers, WorkerPC, LoaderPC
<1>2. /\ GraceInv' /\ ListWellFormed' /\ OneEntryPerBook' /\ Linked' = Linked
      /\ \A m \in Thread : MaySee(m)' = MaySee(m)
  BY <1>0, QuietStep
<1>3. PhaseInv'
  BY DEF IInv, TypeOK, PhaseInv, Gone, Workers
<1>4. LockInv' /\ WriterInv'
  BY <1>0, <1>2 DEF IInv, TypeOK, LockInv, WriterInv, PhaseInv, Workers,
         Locked, Changing, Retiring, Gone, listvars, bookvars
<1>5. LoaderInv'
  BY <1>0 DEF IInv, TypeOK, LoaderInv, PhaseInv, Workers, listvars
<1>6. ReaderInv'
  BY <1>0, <1>2 DEF IInv, TypeOK, ListTypeOK, ReaderInv, Reading, Workers, listvars
<1>7. OrderInv'
  BY <1>0, <1>2 DEF IInv, TypeOK, OrderInv, Workers, listvars, bookvars
<1>8. FlagInv' /\ SingleBorrower'
  BY <1>0, <1>2 DEF IInv, TypeOK, FlagInv, SingleBorrower, Holds, OnShelf,
         Workers, listvars, bookvars
<1> QED BY <1>1, <1>2, <1>3, <1>4, <1>5, <1>6, <1>7, <1>8 DEF IInv

(* add_book runs alone: no thread exists and the list is all there is.     *)
LEMMA AddBookStep == ASSUME IInv, AddBook PROVE IInv'
<1> USE RcuListAssumption, KylinRcuAssumption
<1>0. /\ pc[Loader] = "add" /\ \A t \in Workers : pc[t] = "none" /\ pc'[t] = "none"
      /\ pc'[Loader] \in {"add", "spawn"}
      /\ readers = {} /\ readers' = {}
      /\ \A n \in Node : mayhold[n] = {} /\ mayhold'[n] = {}
      /\ book'[Loader] = NextBook(book[Loader]) /\ book[Loader] \in Books
      /\ pc'[Loader] = "add" => book[Loader] # BookCount - 1
  BY DEF IInv, TypeOK, ListTypeOK, PhaseInv, ReaderInv, GraceInv, Reading, AddBook, Goto, Workers
<1>1. TypeOK'
  BY <1>0, NextBookFacts
     DEF IInv, TypeOK, ListTypeOK, AddBook, Free, list_add_rcu, Goto, bookvars,
         WorkerPC, LoaderPC, Life, Entry
<1>2. PhaseInv' /\ LockInv'
  BY <1>0 DEF PhaseInv, LockInv, Gone, Locked, Workers
<1>3. WriterInv' /\ LoaderInv'
  BY <1>0 DEF IInv, WriterInv, LoaderInv, Changing, Retiring, Workers, AddBook
<1>4. ReaderInv'
  BY <1>0 DEF IInv, ReaderInv, Reading, Workers, AddBook
<1>5. GraceInv'
  BY <1>0 DEF GraceInv
<1>6. FlagInv' /\ SingleBorrower'
  BY <1>0 DEF FlagInv, SingleBorrower, Holds, Workers
<1>7. ListWellFormed' /\ OrderInv'
  <2>1. CASE UNCHANGED <<heap, next, prev, bookvars>>
    <3>1. Linked' = Linked /\ UNCHANGED <<next, prev, id>>
      BY <2>1 DEF Linked, bookvars
    <3>2. ListWellFormed' /\ OneEntryPerBook'
      BY <3>1 DEF IInv, ListWellFormed, OrderInv, OneEntryPerBook
    <3>3. \A n \in Linked : id[n] \in Nat /\ id[n] < book[Loader]
      BY <1>0 DEF IInv, TypeOK, Books, OrderInv, Linked
    <3>4. pc'[Loader] = "add" => \A n \in Linked' : id'[n] < book'[Loader]
      BY <1>0, <3>1, <3>3, NextBookFacts, KylinRcuAssumption DEF Books, NextBook
    <3> QED BY <3>1, <3>2, <3>4 DEF IInv, OrderInv
  <2>2. ASSUME NEW n \in Free,
               heap' = [heap EXCEPT ![n] = "linked"],
               id' = [id EXCEPT ![n] = book[Loader]],
               list_add_rcu(n)
        PROVE  ListWellFormed' /\ OrderInv'
    <3>1. n \in Node /\ n \notin Linked /\ Linked' = Linked \cup {n}
      BY <2>2 DEF Free, Linked, IInv, TypeOK, ListTypeOK
    <3>2. ListWellFormed'
      BY <2>2, <3>1 DEF IInv, TypeOK, ListTypeOK, ListWellFormed, Entry,
                        list_add_rcu, Linked
    <3>3. /\ \A x \in Linked : id'[x] = id[x] /\ id[x] < book[Loader] /\ id[x] \in Nat
          /\ id'[n] = book[Loader] /\ book[Loader] \in Nat
      BY <2>2, <3>1, <1>0 DEF IInv, TypeOK, Books, OrderInv, Linked
    <3>4. /\ next'[n] = next[HEAD] /\ \A x \in Linked : next'[x] = next[x]
          /\ next[HEAD] \in Linked \cup {HEAD}
      BY <2>2, <3>1 DEF IInv, TypeOK, ListTypeOK, ListWellFormed, Entry,
                        list_add_rcu, Linked
    <3>5. OneEntryPerBook'
      BY <3>1, <3>3 DEF IInv, OrderInv, OneEntryPerBook
    <3>6. \A x \in Linked' : next'[x] \in Linked' => id'[next'[x]] < id'[x]
      BY <3>1, <3>3, <3>4 DEF IInv, OrderInv, ListWellFormed
    <3>7. pc'[Loader] = "add" => \A x \in Linked' : id'[x] < book'[Loader]
      BY <1>0, <3>1, <3>3, NextBookFacts, KylinRcuAssumption DEF Books, NextBook
    <3> QED BY <3>2, <3>5, <3>6, <3>7 DEF OrderInv
  <2> QED BY <2>1, <2>2 DEF AddBook
<1> QED BY <1>1, <1>2, <1>3, <1>4, <1>5, <1>6, <1>7 DEF IInv

(* A manager outside the list, or walking it.                              *)
LEMMA ManagerStep ==
  ASSUME IInv, NEW m \in Managers, Manager(m)
  PROVE  IInv'
<1> USE RcuListAssumption, KylinRcuAssumption
<1> USE DEF Manager, ManagerLoop, ReadLock, ReadNext, ReadOther, ReadFound,
            ReadUnlock, Goto, rcu_read_lock, rcu_read_unlock
<1>0. /\ UNCHANGED <<heap, next, prev, bookvars, lock, new, stop, lost>>
      /\ \A t \in Thread \ {m} : pc'[t] = pc[t] /\ cur'[t] = cur[t]
                                 /\ book'[t] = book[t]
      /\ pc[m] \notin {"none", "off"} /\ pc'[m] # "none"
  BY DEF listvars, IInv, TypeOK
<1>1. TypeOK'
  BY <1>0, NextBookFacts, ZeroBook
     DEF IInv, TypeOK, ListTypeOK, Entry, WorkerPC, LoaderPC, listvars, bookvars
<1>2. PhaseInv' /\ LockInv'
  BY <1>0 DEF IInv, PhaseInv, LockInv, Gone, Workers
<1>3. Linked' = Linked
  BY <1>0 DEF Linked
<1>4. WriterInv'
  BY <1>0, <1>3 DEF IInv, WriterInv, bookvars
<1>5. LoaderInv'
  BY <1>0 DEF IInv, PhaseInv, LoaderInv, Gone, Workers
<1>6. ListWellFormed' /\ OrderInv' /\ FlagInv' /\ SingleBorrower'
  BY <1>0, <1>3 DEF IInv, ListWellFormed, OrderInv, OneEntryPerBook, FlagInv,
                    SingleBorrower, Holds, OnShelf, bookvars
<1>7. ReaderInv' /\ GraceInv'
  <2>1. CASE ReadLock(m)
    BY <2>1, <1>0, <1>3 DEF IInv, TypeOK, ListTypeOK, ReaderInv, GraceInv, ListWellFormed, MaySee, Reading
  <2>2. CASE ReadUnlock(m)
    BY <2>2, <1>0, <1>3 DEF IInv, TypeOK, ListTypeOK, ReaderInv, GraceInv, MaySee, Reading
  <2>3. CASE UNCHANGED listvars
    BY <2>3, <1>0, <1>3 DEF IInv, TypeOK, ListTypeOK, ReaderInv, GraceInv, MaySee, Reading, listvars
  <2> QED BY <2>1, <2>2, <2>3
<1> QED BY <1>1, <1>2, <1>4, <1>5, <1>6, <1>7 DEF IInv

(* A student that leaves the list and the books alone: between two books,  *)
(* taking books_lock, or giving up.                                        *)
LEMMA StudentQuietStep ==
  ASSUME IInv, NEW s \in Students,
         \/ StudentLoop(s) \/ BorrowLock(s) \/ ReturnLock(s)
         \/ BorrowFail(s) \/ ReturnFail(s)
  PROVE  IInv'
<1> USE RcuListAssumption, KylinRcuAssumption
<1> USE DEF StudentLoop, BorrowLock, ReturnLock, BorrowFail, ReturnFail, Lock, Fail, Goto, spin_lock, spin_unlock
<1>0. /\ UNCHANGED <<listvars, bookvars>> /\ UNCHANGED <<cur, new, stop>>
      /\ \A t \in Thread \ {s} : pc'[t] = pc[t] /\ book'[t] = book[t]
      /\ pc[s] \in {"loop", "borrow_book", "reading", "borrow_find", "return_find"}
      /\ pc'[s] \notin Changing \cup Retiring \cup {"none"}
  BY DEF IInv, TypeOK, Changing, Retiring
<1>1. TypeOK'
  BY <1>0 DEF IInv, TypeOK, ListTypeOK, listvars, bookvars, Workers, WorkerPC
<1>2. /\ GraceInv' /\ ListWellFormed' /\ OneEntryPerBook' /\ Linked' = Linked
      /\ \A m \in Thread : MaySee(m)' = MaySee(m)
  BY <1>0, QuietStep
<1>3. PhaseInv'
  BY <1>0 DEF IInv, PhaseInv, Gone, Workers
<1>4. LockInv'
  BY <1>0 DEF IInv, TypeOK, LockInv, Locked
<1>5. WriterInv'
  BY <1>0, <1>2 DEF IInv, WriterInv, Changing, Retiring, listvars, bookvars
<1>6. LoaderInv'
  BY <1>0 DEF IInv, LoaderInv, listvars
<1>7. ReaderInv'
  BY <1>0, <1>2 DEF IInv, TypeOK, ListTypeOK, ReaderInv, Reading, listvars
<1>8. OrderInv'
  BY <1>0, <1>2 DEF IInv, OrderInv, listvars, bookvars
<1>9. FlagInv' /\ SingleBorrower'
  BY <1>0, <1>2 DEF IInv, TypeOK, FlagInv, SingleBorrower, Holds, OnShelf, listvars, bookvars
<1> QED BY <1>1, <1>2, <1>3, <1>4, <1>5, <1>6, <1>7, <1>8, <1>9 DEF IInv

(* Only the holder of books_lock is between its spin_lock and spin_unlock. *)
LEMMA LockExcludes ==
  ASSUME IInv, NEW s \in Students, pc[s] \in Locked
  PROVE  /\ lock = s /\ \A t \in Students : pc[t] \in Locked => t = s
         /\ pc[Loader] \notin Gone \cup {"add"}
BY DEF IInv, LockInv, PhaseInv, Workers, Locked

(* A student that holds books_lock has found the entry of its book.        *)
LEMMA FindStep ==
  ASSUME IInv, NEW s \in Students, BorrowFind(s) \/ ReturnFind(s)
  PROVE  IInv'
<1> USE RcuListAssumption, KylinRcuAssumption
<1> PICK n \in OnShelf(book[s]), c \in Node :
      /\ kzalloc(c) /\ cur' = [cur EXCEPT ![s] = n]
      /\ new' = [new EXCEPT ![s] = c]
      /\ UNCHANGED <<next, prev, readers, waits, mayhold, bookvars, lock, book,
                     stop, lost>>
      /\ \/ borrow[n] = 0 /\ Goto(s, "borrow_find", "borrow_mark")
         \/ borrow[n] = 1 /\ Goto(s, "return_find", "return_mark")
  BY DEF BorrowFind, ReturnFind, Returnable, Take
<1> USE DEF Goto, kzalloc
<1>0. /\ pc[s] \in {"borrow_find", "return_find"}
      /\ pc'[s] \in {"borrow_mark", "return_mark"}
      /\ pc[s] = "borrow_find" => pc'[s] = "borrow_mark" /\ borrow[n] = 0
      /\ pc[s] = "return_find" => pc'[s] = "return_mark"
      /\ \A t \in Thread \ {s} : pc'[t] = pc[t]
      /\ n \in Linked /\ id[n] = book[s]
  BY DEF IInv, TypeOK, OnShelf
<1>1. /\ lock = s /\ \A t \in Students : pc[t] \in Locked => t = s
      /\ pc[Loader] \notin Gone \cup {"add"}
  BY <1>0, LockExcludes DEF Locked
<1>2. Linked' = Linked /\ n # c
  BY <1>0 DEF IInv, TypeOK, ListTypeOK, Linked
<1>3. TypeOK'
  BY <1>0 DEF IInv, TypeOK, ListTypeOK, Life, Entry, WorkerPC, bookvars, Linked
<1>4. PhaseInv' /\ LockInv'
  BY <1>0, <1>1 DEF IInv, PhaseInv, LockInv, Gone, Workers, Locked
<1>5. WriterInv'
  BY <1>0, <1>1, <1>2 DEF IInv, TypeOK, ListTypeOK, WriterInv, Changing, Retiring,
                          Locked, bookvars
<1>6. LoaderInv'
  BY <1>0, <1>1 DEF IInv, TypeOK, LoaderInv, Gone
<1>7. ReaderInv' /\ GraceInv'
  BY <1>0, <1>2 DEF IInv, TypeOK, ListTypeOK, ReaderInv, GraceInv, MaySee, Reading
<1>8. ListWellFormed' /\ OrderInv'
  BY <1>0, <1>1, <1>2 DEF IInv, ListWellFormed, OrderInv, OneEntryPerBook, bookvars
<1>9. FlagInv' /\ SingleBorrower'
  <2>1. ASSUME NEW t \in Students, t # s, Holds(t, book[s]) PROVE FALSE
    <3>1. pc[s] = "borrow_find" => FALSE
      BY <1>0, <1>1, <2>1 DEF IInv, FlagInv, Holds, OnShelf, Locked
    <3>2. pc[s] = "return_find" => FALSE
      BY <1>0, <2>1 DEF IInv, SingleBorrower, Holds, TypeOK
    <3> QED BY <3>1, <3>2, <1>0
  <2>2. SingleBorrower'
    BY <1>0, <2>1 DEF IInv, SingleBorrower, Holds
  <2>3. FlagInv'
    BY <1>0, <1>2 DEF IInv, FlagInv, Holds, OnShelf, bookvars
  <2> QED BY <2>2, <2>3
<1> QED BY <1>3, <1>4, <1>5, <1>6, <1>7, <1>8, <1>9 DEF IInv

(* The flag of the entry s found is changed in place.                      *)
LEMMA MarkStep ==
  ASSUME IInv, NEW s \in Students, BorrowMark(s) \/ ReturnMark(s)
  PROVE  IInv'
<1> USE RcuListAssumption, KylinRcuAssumption
<1> USE DEF Goto, BorrowMark, ReturnMark, Mark
<1>0. /\ pc[s] \in {"borrow_mark", "return_mark"}
      /\ pc[s] = "borrow_mark" => pc'[s] = "borrow_replace" /\ borrow' = [borrow EXCEPT ![cur[s]] = 1]
      /\ pc[s] = "return_mark" => pc'[s] = "return_replace" /\ borrow' = [borrow EXCEPT ![cur[s]] = 0]
      /\ \A t \in Thread \ {s} : pc'[t] = pc[t]
      /\ UNCHANGED <<heap, next, prev, readers, waits, mayhold, id, lock, book, cur, new, stop, lost>>
      /\ cur[s] \in Linked /\ id[cur[s]] = book[s]
  BY DEF IInv, TypeOK, listvars, WriterInv, Changing
<1>1. /\ lock = s /\ \A t \in Students : pc[t] \in Locked => t = s
      /\ pc[Loader] \notin Gone \cup {"add"}
  BY <1>0, LockExcludes DEF Locked
<1>2. Linked' = Linked
  BY <1>0 DEF Linked
<1>3. TypeOK'
  BY <1>0 DEF IInv, TypeOK, ListTypeOK, WorkerPC
<1>4. PhaseInv' /\ LockInv'
  BY <1>0, <1>1 DEF IInv, PhaseInv, LockInv, Gone, Workers, Locked
<1>5. WriterInv'
  BY <1>0, <1>2 DEF IInv, WriterInv, Changing, Retiring
<1>6. LoaderInv'
  BY <1>0 DEF IInv, LoaderInv
<1>7. ReaderInv' /\ GraceInv'
  BY <1>0, <1>2 DEF IInv, TypeOK, ListTypeOK, ReaderInv, GraceInv, MaySee, Reading
<1>8. ListWellFormed' /\ OrderInv'
  BY <1>0, <1>1, <1>2 DEF IInv, ListWellFormed, OrderInv, OneEntryPerBook
<1>9. FlagInv' /\ SingleBorrower'
  <2>1. SingleBorrower'
    BY <1>0 DEF IInv, SingleBorrower, Holds
  <2>2. ASSUME NEW t \in Students, NEW n \in OnShelf(book[t]),
               pc'[t] \notin {"borrow_mark", "return_replace"},
               Holds(t, book[t])'
        PROVE  borrow'[n] = 1
    <3>1. CASE t = s
      BY <3>1, <2>2, <1>0 DEF IInv, OrderInv, OneEntryPerBook, OnShelf, Holds, TypeOK, Linked
    <3>2. CASE t # s
      <4>1. book[t] # book[s]
        BY <3>2, <2>2, <1>0 DEF IInv, SingleBorrower, Holds, TypeOK
      <4>2. n # cur[s]
        BY <4>1, <1>0 DEF OnShelf
      <4>3. borrow[n] = 1
        BY <3>2, <2>2, <1>0 DEF IInv, FlagInv, Holds
      <4> QED BY <4>2, <4>3, <1>0 DEF IInv, TypeOK, OnShelf, Linked
    <3> QED BY <3>1, <3>2
  <2>3. FlagInv'
    BY <2>2, <1>0, <1>2 DEF FlagInv, OnShelf
  <2> QED BY <2>1, <2>3
<1> QED BY <1>3, <1>4, <1>5, <1>6, <1>7, <1>8, <1>9 DEF IInv

(* The copy takes the place of the old entry on the list.                  *)
LEMMA ReplaceStep ==
  ASSUME IInv, NEW s \in Students, BorrowReplace(s) \/ ReturnReplace(s)
  PROVE  IInv'
<1> USE RcuListAssumption, KylinRcuAssumption
<1> USE DEF Goto, BorrowReplace, ReturnReplace, Replace, Publish,
            list_replace_rcu, Unlink, spin_unlock
<1> DEFINE o == cur[s]
           n == new[s]
<1>0. /\ pc[s] = "borrow_replace" => pc'[s] = "borrow_retire"
      /\ pc[s] = "return_replace" => pc'[s] = "return_retire"
      /\ pc[s] \in {"borrow_replace", "return_replace"}
      /\ \A t \in Thread \ {s} : pc'[t] = pc[t] /\ new'[t] = new[t]
      /\ UNCHANGED <<readers, waits, book, cur, stop, lost>> /\ lock' = NoThread
      /\ o \in Linked /\ id[o] = book[s] /\ n \in Node /\ heap[n] = "fresh"
      /\ n # o
  BY DEF IInv, TypeOK, ListTypeOK, WriterInv, Changing, Linked
<1>1. /\ lock = s /\ \A t \in Students : pc[t] \in Locked => t = s
      /\ pc[Loader] \notin Gone \cup {"add"}
  BY <1>0, LockExcludes DEF Locked
<1>2. /\ Linked' = (Linked \ {o}) \cup {n} /\ n \notin Linked
      /\ heap'[o] = "unlinked"
      /\ \A x \in Node \ {o, n} : heap'[x] = heap[x]
  BY <1>0 DEF IInv, TypeOK, ListTypeOK, Linked
<1>3. /\ id'[n] = id[o] /\ \A x \in Node \ {n} : id'[x] = id[x]
      /\ borrow'[n] = borrow[o] /\ \A x \in Node \ {n} : borrow'[x] = borrow[x]
      /\ mayhold'[o] = readers /\ \A x \in Node \ {o} : mayhold'[x] = mayhold[x]
  BY <1>0 DEF IInv, TypeOK, ListTypeOK, Linked
<1>4. /\ next[o] \in Linked \cup {HEAD} /\ next[o] # o
      /\ prev[o] \in Linked \cup {HEAD} /\ prev[o] # o
      /\ next[prev[o]] = o /\ prev[next[o]] = o
  BY <1>0 DEF IInv, ListWellFormed, OrderInv, TypeOK, Books
<1>5. /\ next'[n] = next[o] /\ next'[prev[o]] = n
      /\ \A e \in Entry \ {n, prev[o]} : next'[e] = next[e]
      /\ prev'[n] = prev[o] /\ prev'[next[o]] = n
      /\ \A e \in Entry \ {n, o, next[o]} : prev'[e] = prev[e]
  BY <1>0, <1>2, <1>4 DEF IInv, TypeOK, ListTypeOK, Entry, Linked
<1>6. TypeOK'
  BY <1>0, <1>4 DEF IInv, TypeOK, ListTypeOK, Life, Entry, WorkerPC, Linked
<1>7. PhaseInv' /\ LockInv'
  BY <1>0, <1>1 DEF IInv, PhaseInv, LockInv, Gone, Workers, Locked
<1>8. WriterInv'
  BY <1>0, <1>1, <1>2 DEF IInv, WriterInv, Changing, Retiring, Locked, Linked
<1>9. LoaderInv'
  BY <1>0, <1>1 DEF IInv, TypeOK, LoaderInv, Gone
<1>10. ListWellFormed'
  BY <1>0, <1>2, <1>4, <1>5 DEF IInv, ListWellFormed, Entry, Linked
<1>11. GraceInv'
  BY <1>0, <1>2, <1>3 DEF IInv, TypeOK, ListTypeOK, GraceInv, Linked
<1>12. ReaderInv'
  <2>1. \A m \in readers : MaySee(m)' = MaySee(m) \cup {n}
    BY <1>0, <1>2, <1>3 DEF MaySee, IInv, GraceInv, Linked
  <2>2. ASSUME NEW m \in readers, NEW e \in MaySee(m)' PROVE next'[e] \in MaySee(m)'
    BY <2>1, <1>4, <1>5 DEF IInv, ReaderInv, MaySee, Entry, Linked
  <2> QED BY <2>1, <2>2, <1>0 DEF IInv, TypeOK, ReaderInv, Reading
<1>13. OrderInv'
  <2>1. OneEntryPerBook'
    BY <1>0, <1>2, <1>3 DEF IInv, OrderInv, OneEntryPerBook, Linked
  <2>2. ASSUME NEW x \in Linked', next'[x] \in Linked'
        PROVE  id'[next'[x]] < id'[x]
    BY <2>2, <1>0, <1>2, <1>3, <1>4, <1>5
       DEF IInv, OrderInv, ListWellFormed, Entry, Linked
  <2> QED BY <2>1, <2>2, <1>0, <1>1 DEF OrderInv
<1>14. SingleBorrower'
  BY <1>0 DEF IInv, TypeOK, SingleBorrower, Holds
<1>15. FlagInv'
  <2>1. \A t \in Students : OnShelf(book[t])' =
          IF book[t] = book[s] THEN (OnShelf(book[t]) \ {o}) \cup {n}
                               ELSE OnShelf(book[t])
    BY <1>0, <1>2, <1>3 DEF OnShelf, Linked
  <2>2. o \in OnShelf(book[s])
    BY <1>0 DEF OnShelf
  <2> QED BY <2>1, <2>2, <1>0, <1>1, <1>3 DEF IInv, TypeOK, FlagInv, SingleBorrower,
             Holds, OnShelf, Linked
<1> QED BY <1>6, <1>7, <1>8, <1>9, <1>10, <1>11, <1>12, <1>13, <1>14, <1>15 DEF IInv

(* The old entry goes to call_rcu.                                         *)
LEMMA RetireStep ==
  ASSUME IInv, NEW s \in Students, BorrowRetire(s) \/ ReturnRetire(s)
  PROVE  IInv'
<1> USE RcuListAssumption, KylinRcuAssumption
<1> USE DEF Goto, BorrowRetire, ReturnRetire, Retire, call_rcu, StartGracePeriod
<1> DEFINE o == cur[s]
<1>0. /\ pc[s] = "borrow_retire" => pc'[s] = "reading"
      /\ pc[s] = "return_retire" => pc'[s] = "loop"
      /\ pc[s] \in Retiring
      /\ \A t \in Thread \ {s} : pc'[t] = pc[t] /\ cur'[t] = cur[t]
      /\ cur'[s] = HEAD
      /\ UNCHANGED <<next, prev, readers, mayhold, bookvars, lock, book, new, stop, lost>>
      /\ o \in Node /\ heap[o] = "unlinked" /\ heap'[o] = "queued"
      /\ waits'[o] = readers
      /\ \A x \in Node \ {o} : heap'[x] = heap[x] /\ waits'[x] = waits[x]
  BY DEF IInv, TypeOK, ListTypeOK, WriterInv, Retiring
<1>1. Linked' = Linked
  BY <1>0 DEF Linked
<1>2. pc[Loader] \notin Gone \cup {"add"}
  BY <1>0 DEF IInv, PhaseInv, Workers, Retiring
<1>3. TypeOK'
  BY <1>0 DEF IInv, TypeOK, ListTypeOK, Life, Entry, WorkerPC, bookvars
<1>4. PhaseInv' /\ LockInv'
  BY <1>0, <1>2 DEF IInv, PhaseInv, LockInv, Gone, Workers, Locked, Retiring
<1>5. WriterInv'
  BY <1>0, <1>1 DEF IInv, WriterInv, Changing, Retiring, bookvars
<1>6. LoaderInv'
  BY <1>0, <1>2 DEF IInv, LoaderInv, Gone
<1>7. ReaderInv' /\ GraceInv'
  BY <1>0, <1>1 DEF IInv, TypeOK, ListTypeOK, ReaderInv, GraceInv, MaySee, Reading, Retiring
<1>8. ListWellFormed' /\ OrderInv'
  BY <1>0, <1>1, <1>2 DEF IInv, ListWellFormed, OrderInv, OneEntryPerBook, bookvars
<1>9. FlagInv' /\ SingleBorrower'
  BY <1>0, <1>1 DEF IInv, TypeOK, FlagInv, SingleBorrower, Holds, OnShelf, Retiring, bookvars
<1> QED BY <1>3, <1>4, <1>5, <1>6, <1>7, <1>8, <1>9 DEF IInv

LEMMA StudentStep ==
  ASSUME IInv, NEW s \in Students, Student(s)
  PROVE  IInv'
BY StudentQuietStep, FindStep, MarkStep, ReplaceStep, RetireStep DEF Student

(* An entry that no section can hold any more is freed: off the list, and  *)
(* no thread stands on it.                                                 *)
LEMMA RunCallbackStep ==
  ASSUME IInv, NEW n \in Node, RunCallback(n)
  PROVE  IInv'
<1> USE RcuListAssumption, KylinRcuAssumption
<1> USE DEF RunCallback, GracePeriodOver, kfree
<1>0. /\ UNCHANGED <<readers, waits, mayhold, lock, pc, book, cur, new, stop, lost>>
      /\ heap[n] = "queued" /\ heap'[n] = "free" /\ mayhold[n] = {}
      /\ \A x \in Node \ {n} : /\ heap'[x] = heap[x] /\ id'[x] = id[x]
                               /\ borrow'[x] = borrow[x]
      /\ \A e \in Entry \ {n} : next'[e] = next[e] /\ prev'[e] = prev[e]
  BY DEF IInv, TypeOK, ListTypeOK, GraceInv, Entry
<1>1. Linked' = Linked /\ n \notin Linked /\ n # HEAD
  BY <1>0 DEF Linked
<1>2. TypeOK'
  BY ZeroBook DEF IInv, TypeOK, ListTypeOK, Life, Entry
<1>3. PhaseInv' /\ LockInv'
  BY <1>0 DEF IInv, PhaseInv, LockInv
<1>4. WriterInv' /\ LoaderInv'
  BY <1>0, <1>1 DEF IInv, TypeOK, WriterInv, LoaderInv, Changing, Retiring, Linked
<1>5. ReaderInv' /\ GraceInv'
  <2>1. \A m \in readers : MaySee(m)' = MaySee(m) /\ n \notin MaySee(m)
    BY <1>0, <1>1 DEF MaySee
  <2>2. ReaderInv'
    BY <2>1, <1>0 DEF IInv, ReaderInv, Reading, MaySee, Entry, Linked
  <2>3. GraceInv'
    BY <1>0 DEF IInv, GraceInv
  <2> QED BY <2>2, <2>3
<1>6. ListWellFormed' /\ OrderInv'
  BY <1>0, <1>1 DEF IInv, ListWellFormed, OrderInv, OneEntryPerBook, Entry, Linked
<1>7. FlagInv' /\ SingleBorrower'
  BY <1>0, <1>1 DEF IInv, FlagInv, SingleBorrower, Holds, OnShelf, Linked
<1> QED BY <1>2, <1>3, <1>4, <1>5, <1>6, <1>7 DEF IInv

(* delete_book after the threads have ended, up to synchronize_rcu.        *)
LEMMA DeleteBookStep == ASSUME IInv, DeleteBook PROVE IInv'
<1> USE RcuListAssumption, KylinRcuAssumption
<1> USE DEF Goto, list_del_rcu, Unlink, StartGracePeriod
<1> PICK n \in OnShelf(book[Loader]) :
      /\ Goto(Loader, "delete", "synchronize_rcu")
      /\ list_del_rcu(n)
      /\ heap' = [heap EXCEPT ![n] = "unlinked"]
      /\ Unlink(n)
      /\ StartGracePeriod(n)
      /\ cur' = [cur EXCEPT ![Loader] = n]
      /\ UNCHANGED <<readers, bookvars, lock, book, new, stop, lost>>
  BY DEF DeleteBook
<1>0. /\ pc[Loader] = "delete" /\ pc'[Loader] = "synchronize_rcu"
      /\ \A t \in Workers : pc[t] = "off" /\ pc'[t] = "off" /\ cur'[t] = cur[t]
      /\ readers = {} /\ n \in Linked
      /\ cur'[Loader] = n
      /\ heap'[n] = "unlinked" /\ \A x \in Node \ {n} : heap'[x] = heap[x]
      /\ \A x \in Node : mayhold[x] = {} /\ mayhold'[x] = {}
  <2>1. /\ pc[Loader] = "delete" /\ pc'[Loader] = "synchronize_rcu"
        /\ \A t \in Workers : pc[t] = "off" /\ pc'[t] = "off" /\ cur'[t] = cur[t]
        /\ cur'[Loader] = n
    BY DEF IInv, TypeOK, PhaseInv, Gone, Workers
  <2>2. n \in Linked /\ heap'[n] = "unlinked"
        /\ \A x \in Node \ {n} : heap'[x] = heap[x]
    BY DEF IInv, TypeOK, ListTypeOK, OnShelf, Linked
  <2>3. readers = {}
    BY <2>1 DEF IInv, ReaderInv, Reading, Workers
  <2>4. \A x \in Node : mayhold[x] = {} /\ mayhold'[x] = {}
    BY <2>3 DEF IInv, TypeOK, ListTypeOK, GraceInv
  <2> QED BY <2>1, <2>2, <2>3, <2>4
<1>1. Linked' = Linked \ {n}
  BY <1>0 DEF Linked
<1>2. /\ next[n] \in Linked \cup {HEAD} /\ next[n] # n
      /\ prev[n] \in Linked \cup {HEAD} /\ prev[n] # n
      /\ next[prev[n]] = n /\ prev[next[n]] = n
  BY <1>0 DEF IInv, ListWellFormed, OrderInv, TypeOK, Books, Linked
<1>3. /\ next'[prev[n]] = next[n]
      /\ \A e \in Entry \ {prev[n]} : next'[e] = next[e]
      /\ prev'[next[n]] = prev[n]
      /\ \A e \in Entry \ {n, next[n]} : prev'[e] = prev[e]
  BY <1>0, <1>2 DEF IInv, TypeOK, ListTypeOK, Entry, Linked
<1>4. TypeOK'
  <2>1. ListTypeOK'
    BY <1>0, <1>2 DEF IInv, TypeOK, ListTypeOK, Life, Entry, Linked
  <2>2. n \in Entry /\ pc' \in [Thread -> WorkerPC \cup LoaderPC]
    BY <1>0 DEF IInv, TypeOK, Entry, LoaderPC, Linked
  <2> QED BY <2>1, <2>2 DEF IInv, TypeOK, bookvars
<1>5. PhaseInv' /\ LockInv' /\ WriterInv' /\ LoaderInv'
  BY <1>0 DEF IInv, PhaseInv, LockInv, WriterInv, LoaderInv, Workers, Locked,
              Changing, Retiring, Linked
<1>6. ReaderInv' /\ GraceInv'
  BY <1>0 DEF IInv, ReaderInv, GraceInv, Reading, Workers
<1>7. ListWellFormed'
  <2> SUFFICES ASSUME NEW e \in (Linked \ {n}) \cup {HEAD}
               PROVE  /\ next'[e] \in (Linked \ {n}) \cup {HEAD}
                      /\ prev'[next'[e]] = e
                      /\ prev'[e] \in (Linked \ {n}) \cup {HEAD}
                      /\ next'[prev'[e]] = e
    BY <1>1 DEF ListWellFormed
  <2>1. e \in Entry /\ e # n /\ n \in Entry
    BY <1>0 DEF Entry, Linked
  <2>2. /\ next[e] \in Linked \cup {HEAD} /\ prev[next[e]] = e
        /\ prev[e] \in Linked \cup {HEAD} /\ next[prev[e]] = e
    BY DEF IInv, ListWellFormed
  <2>3. /\ next[e] \in Entry /\ prev[e] \in Entry
        /\ next[n] \in Entry /\ prev[n] \in Entry
    BY <2>2, <1>2 DEF Entry, Linked
  <2>4. next'[e] \in (Linked \ {n}) \cup {HEAD} /\ prev'[next'[e]] = e
    <3>1. CASE e = prev[n]
      BY <3>1, <2>1, <2>3, <1>2, <1>3
    <3>2. CASE e # prev[n]
      <4>1. next'[e] = next[e] /\ next[e] # n /\ next[e] # next[n]
        BY <3>2, <2>1, <2>2, <1>2, <1>3
      <4> QED BY <4>1, <2>2, <2>3, <1>3
    <3> QED BY <3>1, <3>2
  <2>5. prev'[e] \in (Linked \ {n}) \cup {HEAD} /\ next'[prev'[e]] = e
    <3>1. CASE e = next[n]
      BY <3>1, <2>1, <2>3, <1>2, <1>3
    <3>2. CASE e # next[n]
      <4>1. prev'[e] = prev[e] /\ prev[e] # n /\ prev[e] # prev[n]
        BY <3>2, <2>1, <2>2, <1>2, <1>3
      <4> QED BY <4>1, <2>2, <2>3, <1>3
    <3> QED BY <3>1, <3>2
  <2> QED BY <2>4, <2>5
<1>8. OrderInv'
  <2>1. OneEntryPerBook'
    BY <1>1 DEF IInv, OrderInv, OneEntryPerBook, bookvars
  <2>2. ASSUME NEW x \in Linked', next'[x] \in Linked' PROVE id[next'[x]] < id[x]
    <3>1. CASE x = prev[n]
      <4>1. id[n] < id[x]
        BY <3>1, <2>2, <1>0, <1>1, <1>2 DEF IInv, OrderInv
      <4>2. id[next[n]] < id[n]
        BY <3>1, <2>2, <1>0, <1>1, <1>2, <1>3 DEF IInv, OrderInv
      <4>3. id[x] \in Nat /\ id[n] \in Nat /\ id[next[n]] \in Nat /\ next'[x] = next[n]
        BY <3>1, <2>2, <1>0, <1>1, <1>2, <1>3 DEF IInv, TypeOK, Books, Linked
      <4> QED BY <4>1, <4>2, <4>3
    <3>2. CASE x # prev[n]
      BY <3>2, <2>2, <1>1, <1>3 DEF IInv, OrderInv, Entry, Linked
    <3> QED BY <3>1, <3>2
  <2> QED BY <2>1, <2>2, <1>0 DEF OrderInv, bookvars
<1>9. FlagInv' /\ SingleBorrower'
  BY <1>0 DEF FlagInv, SingleBorrower, Holds, Workers
<1> QED BY <1>4, <1>5, <1>6, <1>7, <1>8, <1>9 DEF IInv

LEMMA DeleteFreeStep == ASSUME IInv, DeleteFree PROVE IInv'
<1> USE RcuListAssumption, KylinRcuAssumption
<1> USE DEF DeleteFree, NextDelete, Goto, GracePeriodOver, kfree
<1> DEFINE n == cur[Loader]
<1>0. /\ pc[Loader] = "synchronize_rcu" /\ pc'[Loader] \in {"delete", "unloaded"}
      /\ \A t \in Workers : pc[t] = "off" /\ pc'[t] = "off" /\ cur'[t] = cur[t]
      /\ n \in Node /\ heap[n] = "unlinked" /\ cur'[Loader] = HEAD
      /\ readers = {} /\ readers' = {}
      /\ \A x \in Node : mayhold[x] = {} /\ mayhold'[x] = {}
      /\ UNCHANGED <<readers, waits, mayhold, lock, new, stop, lost>>
      /\ heap'[n] = "free"
      /\ \A x \in Node \ {n} : /\ heap'[x] = heap[x] /\ id'[x] = id[x]
                               /\ borrow'[x] = borrow[x]
      /\ \A e \in Entry \ {n} : next'[e] = next[e] /\ prev'[e] = prev[e]
  BY DEF IInv, TypeOK, ListTypeOK, PhaseInv, LoaderInv, Gone, Workers, ReaderInv,
         GraceInv, Reading, Entry
<1>1. Linked' = Linked /\ n \notin Linked
  BY <1>0 DEF Linked
<1>2. TypeOK'
  BY ZeroBook, NextBookFacts DEF IInv, TypeOK, ListTypeOK, Life, Entry, LoaderPC
<1>3. PhaseInv' /\ LockInv' /\ WriterInv' /\ LoaderInv'
  BY <1>0 DEF IInv, PhaseInv, LockInv, WriterInv, LoaderInv, Workers, Locked,
              Changing, Retiring
<1>4. ReaderInv' /\ GraceInv'
  BY <1>0 DEF IInv, ReaderInv, GraceInv, Reading, Workers
<1>5. ListWellFormed' /\ OrderInv'
  BY <1>0, <1>1 DEF IInv, ListWellFormed, OrderInv, OneEntryPerBook, Entry, Linked
<1>6. FlagInv' /\ SingleBorrower'
  BY <1>0 DEF FlagInv, SingleBorrower, Holds, Workers
<1> QED BY <1>2, <1>3, <1>4, <1>5, <1>6 DEF IInv

-----------------------------------------------------------------------------
LEMMA NextIInv == IInv /\ [Next]_vars => IInv'
<1> SUFFICES ASSUME IInv, [Next]_vars PROVE IInv' OBVIOUS
<1>1. ASSUME UNCHANGED vars PROVE IInv'
  BY <1>1 DEF vars, listvars, bookvars, IInv, TypeOK, ListTypeOK, PhaseInv,
     LockInv, WriterInv, LoaderInv, ReaderInv, GraceInv, ListWellFormed, OrderInv,
     OneEntryPerBook, FlagInv, SingleBorrower, Holds, OnShelf, Linked, MaySee
<1>2. CASE Next
  BY <1>1, <1>2, AddBookStep, LoaderQuietStep, ManagerStep, StudentStep,
     RunCallbackStep, DeleteBookStep, DeleteFreeStep DEF Next, Exit, Finished
<1> QED BY <1>1, <1>2

LEMMA Invariance == Spec => []IInv
BY InitIInv, NextIInv, PTL DEF Spec

(* The variables of kylin_rcu.c keep their types: a pointer a thread holds *)
(* is an entry, never LIST_POISON2, and the ids are those of the library.  *)
THEOREM TypeCorrect == Spec => []TypeOK
BY Invariance, PTL DEF IInv

(* However many students replace the entries a manager walks over, nobody  *)
(* stands on an entry that was freed: kylin_rcu.c frees an entry only      *)
(* after a grace period that began after the entry left the list.          *)
THEOREM MemorySafe == Spec => []NoUseAfterFree
<1>1. IInv => NoUseAfterFree
  <2> SUFFICES ASSUME IInv, NEW t \in Thread, cur[t] # HEAD
               PROVE  heap[cur[t]] \notin {"free", "fresh"}
    BY DEF NoUseAfterFree
  <2>1. CASE t \in Students
    BY <2>1 DEF IInv, WriterInv, Changing, Retiring, Linked
  <2>2. CASE t \in Managers
    BY <2>2 DEF IInv, ReaderInv, GraceInv, MaySee, Linked
  <2>3. CASE t = Loader
    BY <2>3 DEF IInv, LoaderInv
  <2> QED BY <2>1, <2>2, <2>3, KylinRcuAssumption
<1> QED BY <1>1, Invariance, PTL

(* A section that began after an entry was replaced never meets it.        *)
THEOREM NewSectionsSeeNewCopies == Spec => []StaleOnlyInOldSections
<1>1. IInv => StaleOnlyInOldSections
  BY RcuListAssumption DEF IInv, ReaderInv, MaySee, StaleOnlyInOldSections
<1> QED BY <1>1, Invariance, PTL

(* Under books_lock the list stays closed and doubly linked, with one      *)
(* entry per book.                                                         *)
THEOREM ListCorrect == Spec => []ListOfBooks
<1>1. IInv => ListOfBooks
  BY DEF IInv, OrderInv, ListOfBooks
<1> QED BY <1>1, Invariance, PTL

(* A book is lent to one student at a time.                                *)
THEOREM OneBorrower == Spec => []SingleBorrower
<1>1. IInv => SingleBorrower
  BY DEF IInv
<1> QED BY <1>1, Invariance, PTL

-----------------------------------------------------------------------------
(***************************************************************************)
(* print_book finds every book that is there, although the entries of its  *)
(* walk are replaced under it.                                             *)
(***************************************************************************)

(* The entries some walk may stand on, or begin at.                        *)
Seen == Linked \cup {HEAD} \cup {n \in Node : mayhold[n] # {}}

(* Even the next pointer of an entry that is off the list skips nothing    *)
(* that is on it: ids descend, and x is not passed over.                   *)
AheadInv ==
  \A e \in Seen, x \in Linked :
    e = HEAD \/ id[x] < id[e] => next[e] # HEAD /\ id[x] <= id[next[e]]

(* A walk has not yet come past the book it looks for.                     *)
WalkInv ==
  \A m \in Managers :
    OnShelf(book[m]) # {} =>
      /\ pc[m] = "next" => cur[m] = HEAD \/ book[m] < id[cur[m]]
      /\ pc[m] = "test" => cur[m] # HEAD /\ book[m] <= id[cur[m]]

LEMMA InitLookup == Init => AheadInv /\ WalkInv
BY KylinRcuAssumption DEF Init, ListInit, AheadInv, WalkInv, Linked, Seen

LEMMA SeenFacts ==
  ASSUME IInv
  PROVE  /\ \A e \in Seen : e = HEAD \/ (e \in Node /\ heap[e] \in {"linked", "unlinked", "queued"})
         /\ \A e \in Seen : next[e] \in Seen
         /\ \A m \in readers : cur[m] \in Seen
         /\ \A e \in Node : id[e] \in Nat
         /\ HEAD \notin Node
<1> USE RcuListAssumption
<1>1. \A m \in readers : MaySee(m) \subseteq Seen
  BY DEF MaySee, Seen
<1>2. ASSUME NEW e \in Seen PROVE next[e] \in Seen
  <2>1. CASE e \in Linked \cup {HEAD}
    BY <2>1 DEF IInv, ListWellFormed, Seen
  <2>2. CASE e \notin Linked \cup {HEAD}
    <3>1. PICK m \in readers : e \in MaySee(m)
      BY <2>2 DEF Seen, MaySee, IInv, GraceInv
    <3> QED BY <3>1, <1>1 DEF IInv, ReaderInv
  <2> QED BY <2>1, <2>2
<1> QED BY <1>1, <1>2 DEF IInv, ReaderInv, GraceInv, TypeOK, Books, Seen, Linked

(* Steps after which no more is seen, and what is seen is as it was.       *)
LEMMA AheadFrame ==
  ASSUME IInv, AheadInv, Linked' \subseteq Linked, Seen' \subseteq Seen,
         \A e \in Seen : next'[e] = next[e] /\ id'[e] = id[e]
  PROVE  AheadInv'
<1> SUFFICES ASSUME NEW e \in Seen', NEW x \in Linked', e = HEAD \/ id'[x] < id'[e]
             PROVE  next'[e] # HEAD /\ id'[x] <= id'[next'[e]]
  BY DEF AheadInv
<1>1. e \in Seen /\ x \in Seen /\ x \in Linked /\ next[e] \in Seen
  BY SeenFacts DEF Seen
<1> QED BY <1>1 DEF AheadInv

(* Steps of others: a walk is where it was, and so is what it looks for.   *)
LEMMA WalkFrame ==
  ASSUME IInv, WalkInv, NEW m \in Managers,
         pc'[m] = pc[m], cur'[m] = cur[m], book'[m] = book[m],
         pc[m] \in {"next", "test"} =>
           /\ \A e \in Seen : id'[e] = id[e]
           /\ OnShelf(book[m])' # {} => OnShelf(book[m]) # {}
  PROVE  OnShelf(book[m])' # {} =>
           /\ pc'[m] = "next" => cur'[m] = HEAD \/ book'[m] < id'[cur'[m]]
           /\ pc'[m] = "test" => cur'[m] # HEAD /\ book'[m] <= id'[cur'[m]]
<1>1. pc[m] \in {"next", "test"} => m \in readers /\ cur[m] \in Seen
  BY SeenFacts DEF IInv, ReaderInv, Reading
<1>2. OnShelf(book[m])' = {n \in Linked' : id'[n] = book[m]}
  BY DEF OnShelf
<1> QED BY <1>1, <1>2 DEF WalkInv

(* Steps that touch neither the list nor an id that is seen, nor a manager *)
(* at its walk.                                                            *)
LEMMA OtherStep ==
  ASSUME IInv, AheadInv, WalkInv,
         \/ \E t \in Workers : Spawn(t)
         \/ Rmmod
         \/ \E t \in Workers : KthreadStop(t) \/ KthreadStopErr(t)
         \/ AllStopped \/ DeleteNone
         \/ \E s \in Students :
              \/ StudentLoop(s) \/ BorrowLock(s) \/ ReturnLock(s)
              \/ BorrowFail(s) \/ ReturnFail(s)
              \/ BorrowFind(s) \/ ReturnFind(s) \/ BorrowMark(s) \/ ReturnMark(s)
              \/ BorrowRetire(s) \/ ReturnRetire(s)
  PROVE  AheadInv' /\ WalkInv'
<1> USE KylinRcuAssumption
<1>1. /\ UNCHANGED <<next, mayhold, id>> /\ Linked' = Linked
      /\ \A m \in Managers :
           /\ cur'[m] = cur[m] /\ book'[m] = book[m]
           /\ \/ pc'[m] = pc[m]
              \/ pc'[m] \in {"loop", "err"}
  <2>1. CASE \/ (\E t \in Workers : Spawn(t)) \/ Rmmod
             \/ (\E t \in Workers : KthreadStop(t) \/ KthreadStopErr(t))
             \/ AllStopped \/ DeleteNone
    BY <2>1 DEF Spawn, Rmmod, KthreadStop, KthreadStopErr, NextToStop, AllStopped,
       DeleteNone, NextDelete, Goto, listvars, bookvars, Linked, IInv, TypeOK, Workers
  <2>2. ASSUME NEW s \in Students,
               \/ StudentLoop(s) \/ BorrowLock(s) \/ ReturnLock(s)
               \/ BorrowFail(s) \/ ReturnFail(s) \/ BorrowMark(s) \/ ReturnMark(s)
        PROVE  <1>1!:
    BY <2>2 DEF StudentLoop, BorrowLock, ReturnLock, BorrowFail, ReturnFail,
       BorrowMark, ReturnMark, Lock, Fail, Mark, Goto, listvars, bookvars, Linked,
       IInv, TypeOK
  <2>3. ASSUME NEW s \in Students, BorrowFind(s) \/ ReturnFind(s)
        PROVE  <1>1!:
    BY <2>3 DEF BorrowFind, ReturnFind, Take, kzalloc, Goto, bookvars, Linked, IInv,
       TypeOK, ListTypeOK
  <2>4. ASSUME NEW s \in Students, BorrowRetire(s) \/ ReturnRetire(s)
        PROVE  <1>1!:
    <3>1. cur[s] \in Node /\ heap[cur[s]] = "unlinked"
      BY <2>4 DEF BorrowRetire, ReturnRetire, Retire, Goto, IInv, WriterInv, Retiring
    <3> QED BY <2>4, <3>1 DEF BorrowRetire, ReturnRetire, Retire, call_rcu, Goto,
               bookvars, Linked, IInv, TypeOK, ListTypeOK
  <2> QED BY <2>1, <2>2, <2>3, <2>4
<1>2. Seen' = Seen /\ \A i : OnShelf(i)' = OnShelf(i)
  BY <1>1 DEF Seen, OnShelf
<1>3. AheadInv'
  BY <1>1, <1>2, AheadFrame
<1>4. WalkInv'
  BY <1>1, <1>2 DEF WalkInv, OnShelf
<1> QED BY <1>3, <1>4

(* A walk: it stays ahead of its book because the entry it stands on does. *)
LEMMA WalkStep ==
  ASSUME IInv, AheadInv, WalkInv, NEW m \in Managers, Manager(m)
  PROVE  AheadInv' /\ WalkInv'
<1> USE KylinRcuAssumption
<1>1. /\ UNCHANGED <<next, id>> /\ Linked' = Linked
      /\ \A n \in Node : mayhold'[n] \subseteq mayhold[n]
      /\ \A u \in Managers \ {m} :
           pc'[u] = pc[u] /\ cur'[u] = cur[u] /\ book'[u] = book[u]
  BY DEF Manager, ManagerLoop, ReadLock, ReadNext, ReadOther, ReadFound, ReadUnlock,
     rcu_read_unlock, Goto, listvars, bookvars, Linked, IInv, TypeOK, ListTypeOK
<1>2. Seen' \subseteq Seen /\ \A i : OnShelf(i)' = OnShelf(i)
  BY <1>1 DEF Seen, OnShelf
<1>3. AheadInv'
  BY <1>1, <1>2, AheadFrame
<1>4. OnShelf(book'[m]) # {} =>
        /\ pc'[m] = "next" => cur'[m] = HEAD \/ book'[m] < id[cur'[m]]
        /\ pc'[m] = "test" => cur'[m] # HEAD /\ book'[m] <= id[cur'[m]]
  <2>1. CASE ReadNext(m)
    <3>1. /\ pc[m] = "next" /\ pc'[m] = "test" /\ book'[m] = book[m]
          /\ cur'[m] = next[cur[m]] /\ cur[m] \in Seen
      BY <2>1, SeenFacts DEF ReadNext, Goto, IInv, TypeOK, ReaderInv, Reading
    <3>2. ASSUME NEW x \in OnShelf(book[m])
          PROVE  next[cur[m]] # HEAD /\ book[m] <= id[next[cur[m]]]
      BY <3>1, <3>2 DEF WalkInv, AheadInv, OnShelf
    <3> QED BY <3>1, <3>2
  <2>2. CASE ReadOther(m)
    BY <2>2, SeenFacts DEF ReadOther, Goto, IInv, TypeOK, Books, ReaderInv, Reading,
       WalkInv, Entry
  <2>3. CASE ManagerLoop(m) \/ ReadLock(m) \/ ReadFound(m) \/ ReadUnlock(m)
    BY <2>3 DEF ManagerLoop, ReadLock, ReadFound, ReadUnlock, Goto, IInv, TypeOK
  <2> QED BY <2>1, <2>2, <2>3 DEF Manager
<1>5. WalkInv'
  BY <1>1, <1>2, <1>4 DEF WalkInv, OnShelf
<1> QED BY <1>3, <1>5

(* Memory that no walk stands on is given back.                            *)
LEMMA FreeStep ==
  ASSUME IInv, AheadInv, WalkInv, (\E n \in Node : RunCallback(n)) \/ DeleteFree
  PROVE  AheadInv' /\ WalkInv'
<1> USE KylinRcuAssumption
<1>1. PICK n \in Node : /\ heap[n] \in {"queued", "unlinked"} /\ mayhold[n] = {}
                        /\ heap' = [heap EXCEPT ![n] = "free"]
                        /\ next' = [next EXCEPT ![n] = HEAD]
                        /\ id' = [id EXCEPT ![n] = 0]
  BY DEF RunCallback, DeleteFree, NextDelete, Goto, GracePeriodOver, kfree, IInv,
     LoaderInv, GraceInv
<1>2. /\ UNCHANGED mayhold
      /\ \A m \in Managers : pc'[m] = pc[m] /\ cur'[m] = cur[m] /\ book'[m] = book[m]
  BY DEF RunCallback, DeleteFree, NextDelete, Goto, IInv, TypeOK
<1>3. /\ Linked' = Linked /\ Seen' = Seen
      /\ \A e \in Seen : next'[e] = next[e] /\ id'[e] = id[e]
  BY <1>1, <1>2, SeenFacts DEF Linked, Seen, IInv, TypeOK, ListTypeOK, Entry
<1>4. \A i : OnShelf(i)' = OnShelf(i)
  BY <1>3 DEF OnShelf, Seen
<1>5. WalkInv'
  BY <1>2, <1>3, <1>4, WalkFrame DEF WalkInv, OnShelf
<1> QED BY <1>3, <1>5, AheadFrame

(* The copy takes the place and the id of the old entry, which still leads *)
(* to what followed it.                                                    *)
LEMMA ReplaceAheadStep ==
  ASSUME IInv, AheadInv, WalkInv, NEW s \in Students,
         BorrowReplace(s) \/ ReturnReplace(s)
  PROVE  AheadInv' /\ WalkInv'
<1> USE KylinRcuAssumption
<1> DEFINE o == cur[s]
           n == new[s]
<1>1. /\ o \in Linked /\ n \in Node /\ heap[n] = "fresh"
      /\ heap' = [heap EXCEPT ![o] = "unlinked", ![n] = "linked"]
      /\ id' = [id EXCEPT ![n] = id[o]]
      /\ mayhold' = [mayhold EXCEPT ![o] = readers]
      /\ next' = [next EXCEPT ![n] = next[o], ![prev[o]] = n]
      /\ \A m \in Managers : pc'[m] = pc[m] /\ cur'[m] = cur[m] /\ book'[m] = book[m]
  BY DEF BorrowReplace, ReturnReplace, Replace, Publish, list_replace_rcu, Unlink, Goto,
     IInv, TypeOK, WriterInv, Changing
<1>2. /\ n \notin Seen /\ o \in Seen /\ o # n
      /\ Linked' = (Linked \ {o}) \cup {n}
      /\ Seen' \subseteq Seen \cup {n}
  BY <1>1, SeenFacts DEF Linked, Seen, IInv, TypeOK, ListTypeOK
<1>3. /\ id'[n] = id[o] /\ \A e \in Seen : e # HEAD => id'[e] = id[e]
      /\ prev[o] \in Linked \cup {HEAD} /\ next[prev[o]] = o /\ prev[o] # o
      /\ next[o] # o
  BY <1>1, <1>2, SeenFacts DEF IInv, TypeOK, ListWellFormed, OrderInv, Books, Linked
<1>4. /\ next'[n] = next[o] /\ next'[prev[o]] = n
      /\ \A e \in Seen \ {prev[o]} : next'[e] = next[e]
  BY <1>1, <1>2, <1>3, SeenFacts DEF IInv, TypeOK, ListTypeOK, Entry, Linked
<1>5. \A e \in Linked : e \in Seen /\ e # HEAD /\ id'[e] = id[e]
  BY <1>1, <1>2, <1>3, SeenFacts DEF Seen, Linked
<1>6. AheadInv'
  <2> SUFFICES ASSUME NEW e \in Seen', NEW x \in Linked', e = HEAD \/ id'[x] < id'[e]
               PROVE  next'[e] # HEAD /\ id'[x] <= id'[next'[e]]
    BY DEF AheadInv
  <2>1. PICK y \in Linked : id'[x] = id[y]
    <3>1. x = n \/ (x \in Linked /\ id'[x] = id[x])
      BY <1>2, <1>5
    <3> QED BY <3>1, <1>1, <1>3
  <2>2. CASE e = n
    <3>1. n # HEAD /\ o # HEAD /\ id[y] < id[o]
      BY <2>1, <2>2, <1>1, <1>3, <1>5, SeenFacts
    <3>2. next[o] # HEAD /\ id[y] <= id[next[o]] /\ next[o] \in Seen
      BY <3>1, <1>2, SeenFacts DEF AheadInv
    <3> QED BY <3>2, <2>1, <2>2, <1>3, <1>4
  <2>3. CASE e = prev[o]
    <3>1. e = HEAD \/ id[y] < id[e]
      BY <2>1, <2>3, <1>2, <1>3 DEF Seen
    <3>2. id[y] <= id[o] /\ e \in Seen
      BY <3>1, <2>3, <1>3 DEF AheadInv, Seen
    <3> QED BY <3>2, <2>1, <2>3, <1>1, <1>3, <1>4, SeenFacts
  <2>4. CASE e # n /\ e # prev[o]
    <3>1. e \in Seen /\ next[e] \in Seen
      BY <2>4, <1>2, SeenFacts
    <3>2. next[e] # HEAD /\ id[y] <= id[next[e]]
      BY <3>1, <2>1, <2>4, <1>2, <1>3 DEF AheadInv
    <3> QED BY <3>1, <3>2, <2>1, <2>4, <1>3, <1>4
  <2> QED BY <2>2, <2>3, <2>4
<1>7. \A i : OnShelf(i)' # {} => OnShelf(i) # {}
  BY <1>1, <1>2, <1>3 DEF OnShelf, Seen
<1>8. WalkInv'
  <2> SUFFICES ASSUME NEW m \in Managers, OnShelf(book[m])' # {}
               PROVE  /\ pc[m] = "next" => cur[m] = HEAD \/ book[m] < id'[cur[m]]
                      /\ pc[m] = "test" => cur[m] # HEAD /\ book[m] <= id'[cur[m]]
    BY <1>1 DEF WalkInv, OnShelf
  <2>1. pc[m] \in {"next", "test"} => cur[m] \in Seen
    BY SeenFacts DEF IInv, ReaderInv, Reading
  <2>2. OnShelf(book[m]) # {}
    BY <1>1, <1>7 DEF OnShelf
  <2>3. cur[m] \in Seen /\ cur[m] # HEAD => id'[cur[m]] = id[cur[m]]
    BY <1>3
  <2> QED BY <2>1, <2>2, <2>3 DEF WalkInv
<1> QED BY <1>6, <1>8

(* delete_book, when no walk is left.                                      *)
LEMMA DeleteAheadStep ==
  ASSUME IInv, AheadInv, DeleteBook
  PROVE  AheadInv' /\ WalkInv'
<1> USE KylinRcuAssumption
<1>1. PICK n \in Linked :
        /\ heap' = [heap EXCEPT ![n] = "unlinked"]
        /\ next' = [next EXCEPT ![prev[n]] = next[n]]
        /\ mayhold' = [mayhold EXCEPT ![n] = readers]
        /\ UNCHANGED id
  BY DEF DeleteBook, list_del_rcu, Unlink, OnShelf, bookvars
<1>2. /\ \A t \in Managers : pc[t] = "off" /\ pc'[t] = "off"
      /\ readers = {}
  BY DEF DeleteBook, Goto, IInv, TypeOK, PhaseInv, ReaderInv, Reading, Gone, Workers
<1>3. /\ \A x \in Node : mayhold[x] = {} /\ mayhold'[x] = {}
      /\ Linked' = Linked \ {n}
  BY <1>1, <1>2 DEF IInv, TypeOK, ListTypeOK, GraceInv, Linked
<1>4. Seen = Linked \cup {HEAD} /\ Seen' = Seen \ {n} /\ n # HEAD
  BY <1>3, SeenFacts DEF Seen, Linked
<1>5. /\ prev[n] \in Seen /\ next[prev[n]] = n /\ next'[prev[n]] = next[n]
      /\ \A e \in Seen \ {prev[n]} : next'[e] = next[e]
  BY <1>1, <1>4 DEF IInv, TypeOK, ListTypeOK, ListWellFormed, Entry, Linked
<1>6. AheadInv'
  <2> SUFFICES ASSUME NEW e \in Seen', NEW x \in Linked', e = HEAD \/ id[x] < id[e]
               PROVE  next'[e] # HEAD /\ id[x] <= id[next'[e]]
    BY <1>1 DEF AheadInv
  <2>1. e \in Seen /\ x \in Linked /\ x # n
    BY <1>3, <1>4
  <2>2. next[e] # HEAD /\ id[x] <= id[next[e]]
    BY <2>1 DEF AheadInv
  <2>3. CASE e = prev[n]
    <3>1. id[x] # id[n] /\ id[x] <= id[n]
      BY <2>1, <2>2, <2>3, <1>5 DEF IInv, OrderInv, OneEntryPerBook
    <3>2. id[x] < id[n] /\ n \in Seen
      BY <3>1, <1>4, SeenFacts DEF Linked, Seen
    <3> QED BY <3>2, <2>1, <2>3, <1>5 DEF AheadInv
  <2> QED BY <2>1, <2>2, <2>3, <1>5
<1> QED BY <1>2, <1>6 DEF WalkInv

(* add_book puts the largest id in front, before there is a walk.          *)
LEMMA AddAheadStep ==
  ASSUME IInv, AheadInv, AddBook
  PROVE  AheadInv' /\ WalkInv'
<1> USE KylinRcuAssumption
<1>1. /\ \A t \in Managers : pc'[t] = "none"
      /\ \A x \in Node : mayhold[x] = {} /\ mayhold'[x] = {}
      /\ \A x \in Linked : id[x] < book[Loader]
      /\ book[Loader] \in Nat
  BY DEF AddBook, Goto, IInv, TypeOK, ListTypeOK, PhaseInv, ReaderInv, Reading, GraceInv,
     OrderInv, Workers, Books
<1>2. Seen = Linked \cup {HEAD} /\ Seen' = Linked' \cup {HEAD}
  BY <1>1 DEF Seen
<1>3. ASSUME UNCHANGED <<heap, next, prev, bookvars>> PROVE AheadInv'
  BY <1>2, <1>3, AheadFrame DEF Linked, bookvars
<1>4. ASSUME NEW n \in Free,
             heap' = [heap EXCEPT ![n] = "linked"],
             id' = [id EXCEPT ![n] = book[Loader]],
             list_add_rcu(n)
      PROVE  AheadInv'
  <2>1. /\ n \in Node \ Linked /\ Linked' = Linked \cup {n}
        /\ id'[n] = book[Loader] /\ \A x \in Linked : id'[x] = id[x]
    BY <1>4 DEF Free, Linked, IInv, TypeOK, ListTypeOK
  <2>2. /\ next'[n] = next[HEAD] /\ next'[HEAD] = n /\ n # HEAD
        /\ \A x \in Linked : next'[x] = next[x]
    BY <1>4, <2>1, SeenFacts DEF list_add_rcu, IInv, TypeOK, ListTypeOK, Entry, Linked
  <2> SUFFICES ASSUME NEW e \in Linked' \cup {HEAD}, NEW x \in Linked',
                      e = HEAD \/ id'[x] < id'[e]
               PROVE  next'[e] # HEAD /\ id'[x] <= id'[next'[e]]
    BY <1>2 DEF AheadInv
  <2>3. id'[x] <= book[Loader] /\ \A y \in Linked : id[y] \in Nat
    BY <2>1, <1>1, SeenFacts DEF Linked
  <2>4. CASE e = HEAD
    BY <2>1, <2>2, <2>3, <2>4
  <2>5. CASE e # HEAD
    <3>1. /\ x \in Linked
          /\ e \in Linked => id[x] < id[e]
      BY <2>1, <2>3, <2>5, <1>1
    <3>2. ASSUME NEW f \in Linked \cup {HEAD}, f = HEAD \/ id[x] < id[f]
          PROVE  next[f] \in Linked /\ id[x] <= id[next[f]]
      BY <3>1, <3>2, <1>2, SeenFacts DEF AheadInv
    <3> QED BY <3>1, <3>2, <2>1, <2>2, <2>5
  <2> QED BY <2>4, <2>5
<1> QED BY <1>1, <1>3, <1>4 DEF AddBook, WalkInv

LEMMA NextLookup ==
  ASSUME IInv, AheadInv, WalkInv, [Next]_vars
  PROVE  AheadInv' /\ WalkInv'
<1>1. CASE UNCHANGED vars
  BY <1>1 DEF vars, listvars, bookvars, AheadInv, WalkInv, Seen, Linked, OnShelf
<1>2. CASE Next
  BY <1>1, <1>2, OtherStep, WalkStep, FreeStep, ReplaceAheadStep, DeleteAheadStep,
     AddAheadStep DEF Next, Student, Exit, Finished
<1> QED BY <1>1, <1>2

LEMMA LookupInvariance == Spec => [](IInv /\ AheadInv /\ WalkInv)
<1>1. IInv /\ AheadInv /\ WalkInv /\ [Next]_vars => AheadInv' /\ WalkInv'
  BY NextLookup
<1> QED BY <1>1, InitLookup, Invariance, PTL DEF Spec

(* print_book says "not exist book" only of a book that is not on the      *)
(* list: whatever students replace while it walks, it misses nothing.      *)
THEOREM WalkFindsBook == Spec => []LookupNeverMisses
<1>1. WalkInv => LookupNeverMisses
  BY DEF WalkInv, LookupNeverMisses
<1> QED BY <1>1, LookupInvariance, PTL

-----------------------------------------------------------------------------
(***************************************************************************)
(* No memory is lost: a struct book off the list always has one owner that *)
(* will free it, and rmmod leaves none on the list.                        *)
(***************************************************************************)

(* Who has to hand on an entry that is not on the list: new_b belongs to   *)
(* the student that fills it, old_b to the one that is about to retire it. *)
OwnerInv ==
  /\ \A t \in Thread : new[t] # HEAD => t \in Students /\ pc[t] \in Changing
  /\ \A n \in Node :
       /\ heap[n] = "fresh" => \E s \in Students : new[s] = n
       /\ heap[n] = "unlinked" =>
            \/ \E s \in Students : pc[s] \in Retiring /\ cur[s] = n
            \/ pc[Loader] = "synchronize_rcu" /\ cur[Loader] = n

(* The exit deletes the books from id 0 on.                                *)
DeleteInv ==
  /\ pc[Loader] \in {"spawn", "loaded", "stop"} => book[Loader] = 0
  /\ pc[Loader] = "delete" => \A n \in Linked : book[Loader] <= id[n]
  /\ pc[Loader] = "synchronize_rcu" => \A n \in Linked : book[Loader] < id[n]
  /\ pc[Loader] = "unloaded" => Linked = {}

LEMMA InitReclaim == Init => OwnerInv /\ DeleteInv
BY KylinRcuAssumption DEF Init, ListInit, OwnerInv, DeleteInv, Changing, Retiring

(* The loader, and an entry whose grace period is over.                    *)
LEMMA LoaderOwnerStep ==
  ASSUME IInv, OwnerInv,
         \/ AddBook \/ (\E t \in Workers : Spawn(t)) \/ Rmmod
         \/ (\E t \in Workers : KthreadStop(t) \/ KthreadStopErr(t))
         \/ AllStopped \/ DeleteNone \/ (\E n \in Node : RunCallback(n))
  PROVE  OwnerInv'
<1> USE KylinRcuAssumption
<1>1. /\ UNCHANGED <<cur, new>>
      /\ \A s \in Students :
           pc'[s] = pc[s] \/ (pc[s] = "none" /\ pc'[s] \in {"loop", "err"})
      /\ pc[Loader] = "synchronize_rcu" => pc'[Loader] = "synchronize_rcu"
      /\ \A n \in Node : heap'[n] = heap[n] \/ heap'[n] \in {"linked", "free"}
  <2>1. CASE AddBook
    BY <2>1 DEF AddBook, Goto, IInv, TypeOK, ListTypeOK, Free
  <2>2. CASE \E n \in Node : RunCallback(n)
    BY <2>2 DEF RunCallback, kfree, IInv, TypeOK, ListTypeOK
  <2>3. CASE \/ (\E t \in Workers : Spawn(t)) \/ Rmmod
             \/ (\E t \in Workers : KthreadStop(t) \/ KthreadStopErr(t))
             \/ AllStopped \/ DeleteNone
    BY <2>3 DEF Spawn, Rmmod, KthreadStop, KthreadStopErr, NextToStop, AllStopped,
       DeleteNone, NextDelete, Goto, listvars, IInv, TypeOK, Workers
  <2> QED BY <2>1, <2>2, <2>3
<1> QED BY <1>1 DEF OwnerInv, Changing, Retiring

LEMMA DeleteOwnerStep ==
  ASSUME IInv, OwnerInv, DeleteBook \/ DeleteFree
  PROVE  OwnerInv'
<1> USE KylinRcuAssumption
<1>1. /\ UNCHANGED new
      /\ \A t \in Workers : pc[t] = "off" /\ pc'[t] = "off"
  BY DEF DeleteBook, DeleteFree, NextDelete, Goto, IInv, TypeOK, PhaseInv, Gone, Workers
<1>2. CASE DeleteBook
  BY <1>1, <1>2 DEF DeleteBook, Goto, OwnerInv, IInv, TypeOK, ListTypeOK, OnShelf, Linked,
     Workers, Changing, Retiring
<1>3. CASE DeleteFree
  BY <1>1, <1>3 DEF DeleteFree, NextDelete, kfree, Goto, OwnerInv, IInv, TypeOK,
     ListTypeOK, Workers, Changing, Retiring
<1> QED BY <1>2, <1>3

LEMMA ManagerOwnerStep ==
  ASSUME IInv, OwnerInv, NEW m \in Managers, Manager(m)
  PROVE  OwnerInv'
<1> USE KylinRcuAssumption
<1>1. /\ UNCHANGED <<heap, new>>
      /\ \A t \in Thread \ {m} : pc'[t] = pc[t] /\ cur'[t] = cur[t]
  BY DEF Manager, ManagerLoop, ReadLock, ReadNext, ReadOther, ReadFound, ReadUnlock,
     Goto, listvars, IInv, TypeOK
<1> QED BY <1>1 DEF OwnerInv

(* From the lookup to call_rcu the owner of each of the two entries is the *)
(* student itself.                                                         *)
LEMMA StudentOwnerStep ==
  ASSUME IInv, OwnerInv, NEW s \in Students, Student(s)
  PROVE  OwnerInv'
<1> USE KylinRcuAssumption
<1>1. CASE \/ StudentLoop(s) \/ BorrowLock(s) \/ ReturnLock(s)
           \/ BorrowFail(s) \/ ReturnFail(s) \/ BorrowMark(s) \/ ReturnMark(s)
  <2>1. /\ UNCHANGED <<heap, cur, new>>
        /\ \A t \in Thread \ {s} : pc'[t] = pc[t]
        /\ pc[s] \notin Retiring /\ (pc[s] \in Changing => pc'[s] \in Changing)
    BY <1>1 DEF StudentLoop, BorrowLock, ReturnLock, BorrowFail, ReturnFail, BorrowMark,
       ReturnMark, Lock, Fail, Mark, Goto, listvars, IInv, TypeOK, Changing, Retiring
  <2> QED BY <2>1 DEF OwnerInv
<1>2. CASE BorrowFind(s) \/ ReturnFind(s)
  <2>1. PICK c \in Node :
          /\ heap[c] = "free" /\ heap' = [heap EXCEPT ![c] = "fresh"]
          /\ new' = [new EXCEPT ![s] = c]
          /\ \A t \in Thread \ {s} : pc'[t] = pc[t] /\ cur'[t] = cur[t]
          /\ pc[s] \notin Changing \cup Retiring /\ pc'[s] \in Changing
    BY <1>2 DEF BorrowFind, ReturnFind, Take, kzalloc, Goto, IInv, TypeOK, Changing,
       Retiring
  <2>2. new[s] = HEAD
    BY <2>1 DEF OwnerInv
  <2> QED BY <2>1, <2>2, RcuListAssumption DEF OwnerInv, IInv, TypeOK, ListTypeOK
<1>3. CASE BorrowReplace(s) \/ ReturnReplace(s)
  <2>1. /\ cur[s] \in Node /\ new[s] \in Node /\ cur[s] # new[s]
        /\ heap' = [heap EXCEPT ![cur[s]] = "unlinked", ![new[s]] = "linked"]
        /\ new' = [new EXCEPT ![s] = HEAD] /\ UNCHANGED cur
        /\ \A t \in Thread \ {s} : pc'[t] = pc[t]
        /\ pc[s] \notin Retiring /\ pc'[s] \in Retiring
    BY <1>3 DEF BorrowReplace, ReturnReplace, Replace, Publish, Goto, IInv, TypeOK,
       WriterInv, Linked, Changing, Retiring
  <2> QED BY <2>1 DEF OwnerInv, IInv, TypeOK, ListTypeOK
<1>4. CASE BorrowRetire(s) \/ ReturnRetire(s)
  <2>1. /\ cur[s] \in Node /\ heap' = [heap EXCEPT ![cur[s]] = "queued"]
        /\ UNCHANGED new /\ \A t \in Thread \ {s} : pc'[t] = pc[t] /\ cur'[t] = cur[t]
        /\ pc[s] \notin Changing
    BY <1>4 DEF BorrowRetire, ReturnRetire, Retire, call_rcu, Goto, IInv, TypeOK,
       WriterInv, Changing, Retiring
  <2> QED BY <2>1 DEF OwnerInv, IInv, TypeOK, ListTypeOK
<1> QED BY <1>1, <1>2, <1>3, <1>4 DEF Student

(* The loop that deletes goes on behind the books that are left.           *)
LEMMA NextDeletePast ==
  ASSUME IInv, NEW from, NextDelete(from), Linked' = Linked, from \in {"delete", "synchronize_rcu"},
         \A n \in Linked : id'[n] = id[n] /\ book[Loader] < id[n]
  PROVE  DeleteInv'
<1> USE KylinRcuAssumption
<1>1. /\ book[Loader] \in 0 .. BookCount - 1
      /\ \A n \in Linked : id[n] \in 0 .. BookCount - 1
  BY DEF IInv, TypeOK, Books, Linked
<1>2. /\ pc'[Loader] = IF book[Loader] = BookCount - 1 THEN "unloaded" ELSE "delete"
      /\ book'[Loader] = NextBook(book[Loader])
  BY DEF NextDelete, Goto, IInv, TypeOK
<1>3. CASE book[Loader] = BookCount - 1
  BY <1>1, <1>2, <1>3 DEF DeleteInv
<1>4. CASE book[Loader] # BookCount - 1
  <2>1. book'[Loader] = book[Loader] + 1
    BY <1>2, <1>4 DEF NextBook
  <2> QED BY <2>1, <1>1, <1>2, <1>4 DEF DeleteInv
<1> QED BY <1>3, <1>4

LEMMA NextDeleteInv ==
  ASSUME IInv, DeleteInv, [Next]_vars
  PROVE  DeleteInv'
<1> USE KylinRcuAssumption
<1>1. CASE UNCHANGED vars
  BY <1>1 DEF vars, listvars, bookvars, DeleteInv, Linked
<1>2. CASE (\E m \in Managers : Manager(m)) \/ (\E s \in Students : Student(s))
  <2>1. PICK t \in Workers : /\ pc[t] # "off" /\ pc'[Loader] = pc[Loader]
                             /\ book'[Loader] = book[Loader]
    <3>1. ASSUME NEW m \in Managers, Manager(m)
          PROVE  /\ pc[m] # "off" /\ pc'[Loader] = pc[Loader]
                 /\ book'[Loader] = book[Loader]
      BY <3>1 DEF Manager, ManagerLoop, ReadLock, ReadNext, ReadOther, ReadFound,
         ReadUnlock, Goto, IInv, TypeOK
    <3>2. ASSUME NEW s \in Students, Student(s)
          PROVE  /\ pc[s] # "off" /\ pc'[Loader] = pc[Loader]
                 /\ book'[Loader] = book[Loader]
      BY <3>2 DEF Student, StudentLoop, BorrowLock, BorrowFind, BorrowFail, BorrowMark,
         BorrowReplace, BorrowRetire, ReturnLock, ReturnFind, ReturnFail, ReturnMark,
         ReturnReplace, ReturnRetire, Lock, Take, Fail, Mark, Replace, Publish, Retire,
         Goto, IInv, TypeOK
    <3> QED BY <1>2, <3>1, <3>2 DEF Workers
  <2>2. pc[Loader] \notin Gone
    BY <2>1 DEF IInv, PhaseInv
  <2> QED BY <2>1, <2>2 DEF DeleteInv, Gone
<1>3. CASE AddBook
  BY <1>3 DEF AddBook, Goto, IInv, TypeOK, DeleteInv, NextBook
<1>4. CASE \/ (\E t \in Workers : Spawn(t)) \/ Rmmod
           \/ (\E t \in Workers : KthreadStop(t) \/ KthreadStopErr(t)) \/ AllStopped
  <2>1. /\ UNCHANGED <<listvars, bookvars, book>>
        /\ pc[Loader] \in {"spawn", "loaded", "stop"}
        /\ pc'[Loader] \in {"spawn", "loaded", "stop", "delete", "oops"}
    BY <1>4 DEF Spawn, Rmmod, KthreadStop, KthreadStopErr, NextToStop, AllStopped, Goto,
       IInv, TypeOK, Workers
  <2> QED BY <2>1 DEF DeleteInv, listvars, bookvars, Linked, IInv, TypeOK, Books
<1>5. CASE \E n \in Node : RunCallback(n)
  <2>1. /\ UNCHANGED <<pc, book>> /\ Linked' = Linked
        /\ \A n \in Linked : id'[n] = id[n]
    BY <1>5 DEF RunCallback, kfree, Linked, IInv, TypeOK, ListTypeOK
  <2> QED BY <2>1 DEF DeleteInv
<1>6. CASE DeleteBook
  <2>1. PICK n \in OnShelf(book[Loader]) :
          /\ pc[Loader] = "delete" /\ pc'[Loader] = "synchronize_rcu"
          /\ UNCHANGED <<id, book>> /\ Linked' = Linked \ {n}
    BY <1>6 DEF DeleteBook, Goto, OnShelf, Linked, bookvars, IInv, TypeOK, ListTypeOK
  <2>2. \A x \in Linked : x # n => id[x] # book[Loader]
    BY <2>1 DEF IInv, OrderInv, OneEntryPerBook, OnShelf
  <2> QED BY <2>1, <2>2 DEF DeleteInv, IInv, TypeOK, Books, Linked
<1>7. CASE DeleteNone
  <2>1. /\ Linked' = Linked /\ UNCHANGED id /\ NextDelete("delete")
        /\ pc[Loader] = "delete" /\ \A n \in Linked : id[n] # book[Loader]
    BY <1>7 DEF DeleteNone, NextDelete, Goto, listvars, bookvars, Linked, OnShelf
  <2>2. \A n \in Linked : book[Loader] < id[n]
    BY <2>1 DEF DeleteInv, IInv, TypeOK, Books, Linked
  <2> QED BY <2>1, <2>2, NextDeletePast
<1>8. CASE DeleteFree
  <2>1. /\ Linked' = Linked /\ NextDelete("synchronize_rcu")
        /\ pc[Loader] = "synchronize_rcu"
        /\ \A n \in Linked : id'[n] = id[n]
    BY <1>8 DEF DeleteFree, NextDelete, Goto, kfree, Linked, IInv, TypeOK, ListTypeOK,
       LoaderInv
  <2> QED BY <2>1, NextDeletePast DEF DeleteInv
<1> QED BY <1>1, <1>2, <1>3, <1>4, <1>5, <1>6, <1>7, <1>8 DEF Next, Exit, Finished

LEMMA NextOwnerInv ==
  ASSUME IInv, OwnerInv, [Next]_vars
  PROVE  OwnerInv'
<1>1. CASE UNCHANGED vars
  BY <1>1 DEF vars, listvars, OwnerInv
<1> QED BY <1>1, LoaderOwnerStep, DeleteOwnerStep, ManagerOwnerStep, StudentOwnerStep
           DEF Next, Exit, Finished

(* Every struct book off the list belongs to one thread or to call_rcu,    *)
(* and after rmmod to call_rcu alone: none is leaked, none freed twice.    *)
THEOREM NoLeak == Spec => []NothingLeaks
<1>1. IInv /\ OwnerInv /\ DeleteInv => NothingLeaks
  <2> SUFFICES ASSUME IInv, OwnerInv, DeleteInv PROVE NothingLeaks OBVIOUS
  <2> USE KylinRcuAssumption
  <2>1. readers \subseteq Managers /\ \A m \in Managers \ readers : cur[m] = HEAD
    BY DEF IInv, ReaderInv
  <2>2. ASSUME NEW n \in Node
        PROVE  /\ heap[n] = "fresh" => \E t \in Thread : new[t] = n
               /\ heap[n] = "unlinked" => \E t \in Thread \ readers : cur[t] = n
    BY <2>1 DEF OwnerInv
  <2>3. ASSUME NEW t \in Thread \ readers, NEW u \in Thread \ readers, t # u
        PROVE  /\ new[t] = new[u] => new[t] = HEAD
               /\ cur[t] = cur[u] => cur[t] = HEAD
    <3>1. new[t] # HEAD /\ new[u] # HEAD => FALSE
      BY <2>3, LockExcludes DEF OwnerInv, Changing, Locked
    <3>2. ASSUME cur[t] # HEAD, cur[u] = cur[t] PROVE FALSE
      <4>1. ASSUME NEW s \in Students, cur[s] # HEAD
            PROVE  /\ pc[s] \in Changing \cup Retiring /\ pc[Loader] \notin Gone
                   /\ pc[s] \in Changing => heap[cur[s]] = "linked"
                   /\ pc[s] \in Retiring => heap[cur[s]] = "unlinked"
        BY <4>1 DEF IInv, WriterInv, PhaseInv, Workers, Linked, Changing, Retiring
      <4>2. cur[Loader] # HEAD => pc[Loader] \in Gone
        BY DEF IInv, LoaderInv, Gone
      <4>3. t \in Students /\ u \in Students
        BY <2>1, <2>3, <3>2, <4>1, <4>2
      <4>4. CASE pc[t] \in Changing
        BY <4>1, <4>3, <4>4, <2>3, <3>2, LockExcludes DEF Changing, Locked
      <4>5. CASE pc[t] \in Retiring
        BY <4>1, <4>3, <4>5, <2>3, <3>2 DEF IInv, WriterInv
      <4> QED BY <4>1, <4>3, <4>4, <4>5, <3>2
    <3> QED BY <3>1, <3>2
  <2>4. ASSUME pc[Loader] = "unloaded", NEW n \in Node
        PROVE  heap[n] \in {"free", "queued"}
    <3>1. \A t \in Workers : pc[t] = "off"
      BY <2>4 DEF IInv, PhaseInv, Gone
    <3>2. heap[n] \notin {"linked", "fresh", "unlinked"}
      BY <2>4, <3>1, RcuListAssumption DEF OwnerInv, DeleteInv, Linked, Workers, Changing, Retiring
    <3> QED BY <3>2 DEF IInv, TypeOK, ListTypeOK, Life
  <2> QED BY <2>2, <2>3, <2>4 DEF NothingLeaks
<1>2. IInv /\ OwnerInv /\ DeleteInv /\ [Next]_vars => OwnerInv' /\ DeleteInv'
  BY NextOwnerInv, NextDeleteInv
<1> QED BY <1>1, <1>2, InitReclaim, Invariance, PTL DEF Spec
=============================================================================
