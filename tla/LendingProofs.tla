---------------------------- MODULE LendingProofs ----------------------------
(***************************************************************************)
(* KylinRcu implements the library of Lending, for any number of students, *)
(* managers, books and addresses: a loan and its return are one step each, *)
(* the flag says who has a book, and who has one can return it.            *)
(***************************************************************************)
EXTENDS KylinRcuProofs

(* Between the lookup of borrow_book and the replacement of return_book,   *)
(* and those of these points at which the flag is up.                      *)
KeepPC == {"borrow_mark", "borrow_replace", "borrow_retire", "reading",
           "return_find", "return_mark", "return_replace"}
LoanPC == KeepPC \ {"borrow_mark", "return_replace"}

(* A student never keeps a book that left the shelf or that was given up.  *)
LendInv ==
  /\ BorrowFlagAccounted
  /\ \A s \in Students :
       pc[s] \in KeepPC => OnShelf(book[s]) # {} /\ book[s] \notin lost

(* Nothing is given up before there are students.                          *)
LostInv == pc[Loader] = "add" => lost = {}

(* The steps that Lending has names for, and the others.                   *)
Lend == Library!LendNext
Stutter == UNCHANGED <<Shelf, Loans, Marked>>

-----------------------------------------------------------------------------
LEMMA InitLendInv == Init => LendInv /\ Library!LendInit
<1> SUFFICES ASSUME Init PROVE LendInv /\ Library!LendInit OBVIOUS
<1>1. /\ \A i : OnShelf(i) = {}
      /\ Linked = {} /\ \A s \in Students : pc[s] = "none"
  BY KylinRcuAssumption DEF Init, ListInit, OnShelf, Linked
<1>2. Shelf = {} /\ Marked = {}
  BY <1>1 DEF Shelf, Marked
<1>3. Loans = {}
  BY <1>1 DEF Loans, Holds
<1> QED BY <1>1, <1>2, <1>3 DEF LendInv, BorrowFlagAccounted, KeepPC, Library!LendInit

(* What LendInv says of the flag, in terms of LoanPC.                      *)
LEMMA Accounted ==
  BorrowFlagAccounted <=>
    \A n \in Linked :
      borrow[n] = 1 <=> \/ id[n] \in lost
                        \/ \E s \in Students : book[s] = id[n] /\ pc[s] \in LoanPC
BY DEF BorrowFlagAccounted, Holds, KeepPC, LoanPC

LEMMA LoansPC ==
  Loans = {l \in Students \X Books : book[l[1]] = l[2] /\ pc[l[1]] \in LoanPC}
BY DEF Loans, Holds, KeepPC, LoanPC

(* The book of a student that keeps it is nobody else's.                   *)
LEMMA KeeperAlone ==
  ASSUME IInv, NEW s \in Students, pc[s] \in KeepPC,
         NEW t \in Students, pc[t] \in KeepPC, book[s] = book[t]
  PROVE  s = t
BY KylinRcuAssumption DEF IInv, TypeOK, SingleBorrower, Holds, KeepPC

(* Steps that change neither the books on the list nor who has which.      *)
LEMMA LendFrame ==
  ASSUME LendInv, Linked' = Linked, lost' = lost,
         \A n \in Linked : id'[n] = id[n] /\ borrow'[n] = borrow[n],
         \A s \in Students :
           /\ pc'[s] \in LoanPC <=> pc[s] \in LoanPC
           /\ pc'[s] \in KeepPC =>
                /\ book'[s] = book[s]
                /\ \/ pc[s] \in KeepPC
                   \/ OnShelf(book[s]) # {} /\ book[s] \notin lost
  PROVE  LendInv' /\ Stutter
<1>1. \A i : OnShelf(i)' = OnShelf(i)
  BY DEF OnShelf, Linked
<1>2. \A s \in Students : \A i : book'[s] = i /\ pc'[s] \in LoanPC
                               <=> book[s] = i /\ pc[s] \in LoanPC
  BY DEF LoanPC
<1>3. BorrowFlagAccounted'
  <2> SUFFICES ASSUME NEW n \in Linked
               PROVE  borrow'[n] = 1 <=>
                        \/ id'[n] \in lost'
                        \/ \E s \in Students : book'[s] = id'[n] /\ pc'[s] \in LoanPC
    BY DEF BorrowFlagAccounted, Holds, KeepPC, LoanPC
  <2> QED BY <1>2, Accounted DEF LendInv
<1>4. \A s \in Students : pc'[s] \in KeepPC =>
        OnShelf(book[s])' # {} /\ book'[s] \notin lost'
  <2> TAKE s \in Students
  <2> QED BY <1>1 DEF LendInv, OnShelf
<1>5. Shelf' = Shelf /\ Marked' = Marked
  BY <1>1 DEF Shelf, Marked, OnShelf, Linked
<1>6. Loans' = Loans
  BY <1>2, LoansPC DEF Loans, Holds, KeepPC, LoanPC
<1> QED BY <1>3, <1>4, <1>5, <1>6 DEF LendInv, Stutter

-----------------------------------------------------------------------------
LEMMA LoaderStep ==
  ASSUME IInv, LendInv,
         \/ \E t \in Workers : Spawn(t)
         \/ Rmmod
         \/ \E t \in Workers : KthreadStop(t) \/ KthreadStopErr(t)
         \/ AllStopped
         \/ DeleteNone
  PROVE  LendInv' /\ Stutter
<1> USE KylinRcuAssumption
<1>1. /\ UNCHANGED <<listvars, bookvars, lost>>
      /\ \A s \in Students : /\ book'[s] = book[s]
                             /\ \/ pc'[s] = pc[s]
                                \/ pc[s] = "none" /\ pc'[s] \in {"loop", "err"}
  BY DEF Spawn, Rmmod, KthreadStop, KthreadStopErr, NextToStop, AllStopped,
         DeleteNone, NextDelete, Goto, IInv, TypeOK, Workers
<1>2. Linked' = Linked
  BY <1>1 DEF Linked, listvars
<1> QED BY <1>1, <1>2, LendFrame DEF KeepPC, LoanPC, bookvars

LEMMA ManagerLendStep ==
  ASSUME IInv, LendInv, NEW m \in Managers, Manager(m)
  PROVE  LendInv' /\ Stutter
<1> USE KylinRcuAssumption
<1>1. /\ UNCHANGED <<heap, bookvars, lost>>
      /\ \A s \in Students : book'[s] = book[s] /\ pc'[s] = pc[s]
  BY DEF Manager, ManagerLoop, ReadLock, ReadNext, ReadOther, ReadFound, ReadUnlock,
         Goto, IInv, TypeOK, listvars
<1>2. Linked' = Linked
  BY <1>1 DEF Linked
<1> QED BY <1>1, <1>2, LendFrame DEF LoanPC, bookvars

(* Entries off the list are freed.                                         *)
LEMMA FreeLendStep ==
  ASSUME IInv, LendInv, (\E n \in Node : RunCallback(n)) \/ DeleteFree
  PROVE  LendInv' /\ Stutter
<1> USE KylinRcuAssumption
<1>1. PICK n \in Node : /\ heap[n] \in {"queued", "unlinked"}
                        /\ heap' = [heap EXCEPT ![n] = "free"]
                        /\ id' = [id EXCEPT ![n] = 0]
                        /\ borrow' = [borrow EXCEPT ![n] = 0]
  <2>1. CASE DeleteFree
    BY <2>1 DEF DeleteFree, NextDelete, Goto, kfree, IInv, LoaderInv
  <2> QED BY <2>1 DEF RunCallback, kfree
<1>2. /\ Linked' = Linked
      /\ \A x \in Linked : id'[x] = id[x] /\ borrow'[x] = borrow[x]
  BY <1>1 DEF Linked, IInv, TypeOK, ListTypeOK
<1>3. /\ UNCHANGED lost
      /\ \A s \in Students : book'[s] = book[s] /\ pc'[s] = pc[s]
  BY DEF RunCallback, DeleteFree, NextDelete, Goto, IInv, TypeOK
<1> QED BY <1>2, <1>3, LendFrame DEF LoanPC

(* A student that is on its way to a lookup, was refused, or hands an old  *)
(* entry to RCU.                                                           *)
LEMMA StudentOtherStep ==
  ASSUME IInv, LendInv, NEW s \in Students,
         \/ StudentLoop(s) \/ BorrowLock(s) \/ ReturnLock(s) \/ BorrowFail(s)
         \/ BorrowRetire(s) \/ ReturnRetire(s)
  PROVE  LendInv' /\ Stutter
<1> USE KylinRcuAssumption
<1>1. /\ Linked' = Linked /\ UNCHANGED <<bookvars, lost>>
      /\ \A t \in Students \ {s} : book'[t] = book[t] /\ pc'[t] = pc[t]
      /\ pc'[s] \in LoanPC <=> pc[s] \in LoanPC
      /\ pc'[s] \in KeepPC => pc[s] \in KeepPC /\ book'[s] = book[s]
  <2>1. CASE StudentLoop(s)
    BY <2>1 DEF StudentLoop, Goto, IInv, TypeOK, listvars, Linked, LoanPC, KeepPC
  <2>2. CASE BorrowLock(s) \/ ReturnLock(s) \/ BorrowFail(s)
    BY <2>2 DEF BorrowLock, ReturnLock, BorrowFail, Lock, Fail, Goto, IInv,
                TypeOK, listvars, Linked, LoanPC, KeepPC
  <2>3. CASE BorrowRetire(s) \/ ReturnRetire(s)
    <3>1. cur[s] \in Node /\ heap[cur[s]] = "unlinked"
      BY <2>3 DEF IInv, WriterInv, BorrowRetire, ReturnRetire, Retire, Goto, Retiring
    <3> QED BY <2>3, <3>1 DEF BorrowRetire, ReturnRetire, Retire, call_rcu, Goto, IInv,
                TypeOK, ListTypeOK, Linked, LoanPC, KeepPC
  <2> QED BY <2>1, <2>2, <2>3
<1> QED BY <1>1, LendFrame DEF LoanPC, bookvars

(* The lookup of borrow_book finds a book that is neither lent nor given   *)
(* up.                                                                     *)
LEMMA FindLendStep ==
  ASSUME IInv, LendInv, NEW s \in Students, BorrowFind(s) \/ ReturnFind(s)
  PROVE  LendInv' /\ Stutter
<1> USE KylinRcuAssumption
<1>1. PICK n \in OnShelf(book[s]), c \in Node :
        /\ heap[c] = "free" /\ heap' = [heap EXCEPT ![c] = "fresh"]
        /\ UNCHANGED <<bookvars, book, lost>>
        /\ \/ borrow[n] = 0 /\ Goto(s, "borrow_find", "borrow_mark")
           \/ borrow[n] = 1 /\ Goto(s, "return_find", "return_mark")
  BY DEF BorrowFind, ReturnFind, Returnable, Take, kzalloc
<1>2. Linked' = Linked
  BY <1>1 DEF Linked, IInv, TypeOK, ListTypeOK
<1>3. pc[s] = "borrow_find" => book[s] \notin lost
  BY <1>1, Accounted DEF LendInv, OnShelf, Goto
<1>4. /\ pc'[s] \in LoanPC <=> pc[s] \in LoanPC
      /\ \A t \in Students \ {s} : pc'[t] = pc[t]
      /\ pc[s] \in KeepPC \/ (OnShelf(book[s]) # {} /\ book[s] \notin lost)
  BY <1>1, <1>3 DEF IInv, TypeOK, Goto, LoanPC, KeepPC
<1> QED BY <1>1, <1>2, <1>4, LendFrame DEF LoanPC, bookvars

(* The one entry of the book a student changes.                            *)
LEMMA ChangedEntry ==
  ASSUME IInv, NEW s \in Students, pc[s] \in Changing
  PROVE  /\ cur[s] \in Linked /\ book[s] \in Books
         /\ OnShelf(book[s]) = {cur[s]}
BY KylinRcuAssumption
   DEF IInv, TypeOK, WriterInv, OrderInv, OneEntryPerBook, OnShelf, Linked

(* old_b->borrow = 1 is the loan, old_b->borrow = 0 the return.            *)
LEMMA MarkLendStep ==
  ASSUME IInv, LendInv, NEW s \in Students, BorrowMark(s) \/ ReturnMark(s)
  PROVE  LendInv' /\ Lend
<1> USE KylinRcuAssumption
<1> DEFINE n == cur[s]
           i == book[s]
           flag == IF pc[s] = "borrow_mark" THEN 1 ELSE 0
<1>1. /\ pc[s] \in {"borrow_mark", "return_mark"}
      /\ pc[s] = "borrow_mark" => pc'[s] = "borrow_replace"
      /\ pc[s] = "return_mark" => pc'[s] = "return_replace"
      /\ \A t \in Students \ {s} : pc'[t] = pc[t]
      /\ borrow' = [borrow EXCEPT ![n] = flag]
      /\ UNCHANGED <<listvars, id, book, lost>>
  BY DEF BorrowMark, ReturnMark, Mark, Goto, IInv, TypeOK
<1>2. n \in Linked /\ i \in Books /\ OnShelf(i) = {n} /\ id[n] = i
  BY <1>1, ChangedEntry DEF Changing, OnShelf
<1>3. /\ Linked' = Linked /\ \A j : OnShelf(j)' = OnShelf(j)
      /\ borrow'[n] = flag /\ \A x \in Linked \ {n} : borrow'[x] = borrow[x]
  BY <1>1, <1>2 DEF Linked, OnShelf, listvars, IInv, TypeOK
<1>4. /\ \A x \in Linked \ {n} : id[x] # i
      /\ \A t \in Students \ {s} : pc[t] \in KeepPC => book[t] # i
      /\ i \notin lost
  BY <1>1, <1>2, KeeperAlone DEF OnShelf, LendInv, KeepPC
<1>5. pc'[s] \in LoanPC <=> flag = 1
  BY <1>1 DEF LoanPC, KeepPC
<1>6. BorrowFlagAccounted'
  <2> SUFFICES ASSUME NEW x \in Linked
               PROVE  borrow'[x] = 1 <=>
                        \/ id[x] \in lost
                        \/ \E t \in Students : book[t] = id[x] /\ pc'[t] \in LoanPC
    BY <1>1, <1>3 DEF BorrowFlagAccounted, Holds, KeepPC, LoanPC
  <2>1. CASE x = n
    BY <2>1, <1>1, <1>2, <1>3, <1>4, <1>5 DEF LoanPC
  <2>2. CASE x # n
    BY <2>2, <1>1, <1>3, <1>4, Accounted DEF LendInv
  <2> QED BY <2>1, <2>2
<1>7. LendInv'
  BY <1>1, <1>3, <1>6 DEF LendInv, KeepPC
<1>8. /\ Shelf' = Shelf /\ i \in Shelf
      /\ Marked' = IF flag = 1 THEN Marked \cup {i} ELSE Marked \ {i}
  BY <1>1, <1>2, <1>3, <1>4 DEF Shelf, Marked, OnShelf, Linked, IInv, TypeOK
<1>9. Loans' = {l \in Students \X Books : book[l[1]] = l[2] /\ pc'[l[1]] \in LoanPC}
  BY <1>1 DEF Loans, Holds, KeepPC, LoanPC
<1>10. CASE pc[s] = "borrow_mark"
  <2>1. i \notin Marked /\ \A j \in Books : <<s, j>> \notin Loans
    <3>1. borrow[n] # 1
      BY <1>2, <1>4, <1>10, Accounted DEF LendInv, LoanPC, KeepPC
    <3> QED BY <3>1, <1>2, <1>10, LoansPC DEF Marked, LoanPC, KeepPC
  <2>2. Loans' = Loans \cup {<<s, i>>}
    <3>1. ASSUME NEW l \in Students \X Books
          PROVE  l \in Loans' <=> l \in Loans \cup {<<s, i>>}
      BY <1>1, <1>2, <1>9, <1>10, LoansPC DEF LoanPC, KeepPC
    <3> QED BY <3>1, <1>2, <1>9, LoansPC
  <2> QED BY <2>1, <2>2, <1>1, <1>2, <1>7, <1>8, <1>10
             DEF Lend, Library!LendNext, Library!Borrow
<1>11. CASE pc[s] = "return_mark"
  <2>1. <<s, i>> \in Loans
    BY <1>2, <1>11, LoansPC DEF LoanPC, KeepPC
  <2>2. Loans' = Loans \ {<<s, i>>}
    <3>1. ASSUME NEW l \in Students \X Books
          PROVE  l \in Loans' <=> l \in Loans \ {<<s, i>>}
      BY <1>1, <1>2, <1>9, <1>11, LoansPC DEF LoanPC, KeepPC
    <3> QED BY <3>1, <1>2, <1>9, LoansPC
  <2> QED BY <2>1, <2>2, <1>1, <1>2, <1>7, <1>8, <1>11
             DEF Lend, Library!LendNext, Library!Return
<1> QED BY <1>1, <1>10, <1>11

(* The copy takes the place of the old entry: nobody sees a difference.    *)
LEMMA ReplaceLendStep ==
  ASSUME IInv, LendInv, NEW s \in Students, BorrowReplace(s) \/ ReturnReplace(s)
  PROVE  LendInv' /\ Stutter
<1> USE KylinRcuAssumption
<1> DEFINE o == cur[s]
           n == new[s]
<1>1. /\ pc[s] = "borrow_replace" => pc'[s] = "borrow_retire"
      /\ pc[s] = "return_replace" => pc'[s] = "return_retire"
      /\ pc[s] \in {"borrow_replace", "return_replace"}
      /\ \A t \in Students \ {s} : pc'[t] = pc[t]
      /\ UNCHANGED <<book, lost>>
      /\ o \in Linked /\ id[o] = book[s] /\ n \in Node \ Linked
      /\ heap' = [heap EXCEPT ![o] = "unlinked", ![n] = "linked"]
      /\ id' = [id EXCEPT ![n] = id[o]]
      /\ borrow' = [borrow EXCEPT ![n] = borrow[o]]
  BY DEF IInv, TypeOK, WriterInv, Changing, Linked, Goto, BorrowReplace,
         ReturnReplace, Replace, Publish
<1>2. /\ Linked' = (Linked \ {o}) \cup {n}
      /\ id'[n] = id[o] /\ borrow'[n] = borrow[o]
      /\ \A x \in Linked : id'[x] = id[x] /\ borrow'[x] = borrow[x]
  BY <1>1 DEF IInv, TypeOK, ListTypeOK, Linked
<1>3. \A i : /\ OnShelf(i)' = {} <=> OnShelf(i) = {}
             /\ (\E x \in OnShelf(i)' : borrow'[x] = 1)
                  <=> (\E x \in OnShelf(i) : borrow[x] = 1)
  <2> TAKE i
  <2>1. CASE i = id[o]
    <3>1. o \in OnShelf(i) /\ n \in OnShelf(i)'
      BY <2>1, <1>1, <1>2 DEF OnShelf
    <3>2. OnShelf(i) = {o} /\ OnShelf(i)' = {n}
      BY <2>1, <1>1, <1>2 DEF OnShelf, IInv, OrderInv, OneEntryPerBook
    <3> QED BY <3>2, <1>2
  <2>2. CASE i # id[o]
    <3>1. OnShelf(i)' = OnShelf(i)
      BY <2>2, <1>1, <1>2 DEF OnShelf
    <3> QED BY <3>1, <1>2 DEF OnShelf
  <2> QED BY <2>1, <2>2
<1>4. \A t \in Students : /\ pc'[t] \in LoanPC <=> pc[t] \in LoanPC
                          /\ pc'[t] \in KeepPC => pc[t] \in KeepPC
  BY <1>1 DEF LoanPC, KeepPC
<1>5. BorrowFlagAccounted'
  <2> SUFFICES ASSUME NEW x \in Linked'
               PROVE  borrow'[x] = 1 <=>
                        \/ id'[x] \in lost
                        \/ \E t \in Students : book[t] = id'[x] /\ pc'[t] \in LoanPC
    BY <1>1 DEF BorrowFlagAccounted, Holds, KeepPC, LoanPC
  <2>1. PICK y \in Linked : id'[x] = id[y] /\ borrow'[x] = borrow[y]
    BY <1>1, <1>2
  <2> QED BY <2>1, <1>4, Accounted DEF LendInv
<1>6. LendInv'
  <2> SUFFICES ASSUME NEW t \in Students, pc'[t] \in KeepPC
               PROVE  OnShelf(book[t])' # {} /\ book[t] \notin lost
    BY <1>1, <1>5 DEF LendInv, OnShelf
  <2>1. OnShelf(book[t]) # {} /\ book[t] \notin lost
    BY <1>4 DEF LendInv
  <2>2. OnShelf(book[t])' # {}
    BY <2>1, <1>1, <1>2 DEF OnShelf
  <2> QED BY <2>1, <2>2
<1>7. Shelf' = Shelf /\ Marked' = Marked
  BY <1>3 DEF Shelf, Marked
<1>8. Loans' = Loans
  BY <1>1, <1>4 DEF Loans, Holds, KeepPC, LoanPC
<1> QED BY <1>6, <1>7, <1>8 DEF Stutter

(* return_book finds the book it looks for, marked.                        *)
LEMMA StillReturnable ==
  ASSUME IInv, LendInv, NEW s \in Students, pc[s] = "return_find"
  PROVE  Returnable(book[s]) # {}
<1>1. PICK n \in OnShelf(book[s]) : TRUE
  BY DEF LendInv, KeepPC
<1> QED BY <1>1, Accounted DEF LendInv, Returnable, OnShelf, LoanPC, KeepPC

(* It fails for want of memory: the book is given up.                      *)
LEMMA ReturnFailLendStep ==
  ASSUME IInv, LendInv, NEW s \in Students, ReturnFail(s)
  PROVE  LendInv' /\ Lend
<1> USE KylinRcuAssumption
<1> DEFINE i == book[s]
<1>1. /\ pc[s] = "return_find" /\ pc'[s] = "loop"
      /\ \A t \in Students \ {s} : pc'[t] = pc[t]
      /\ UNCHANGED <<listvars, bookvars, book>> /\ i \in Books
  BY DEF ReturnFail, Fail, Goto, IInv, TypeOK
<1>2. lost' = lost \cup {i}
  BY <1>1, StillReturnable DEF ReturnFail
<1>3. /\ UNCHANGED <<id, borrow>> /\ Linked' = Linked
      /\ \A j : OnShelf(j)' = OnShelf(j)
  BY <1>1 DEF Linked, OnShelf, listvars, bookvars
<1>4. \A t \in Students \ {s} : pc[t] \in KeepPC => book[t] # i
  BY <1>1, KeeperAlone DEF KeepPC
<1>5. BorrowFlagAccounted'
  <2> SUFFICES ASSUME NEW x \in Linked
               PROVE  borrow[x] = 1 <=>
                        \/ id[x] \in lost'
                        \/ \E t \in Students : book[t] = id[x] /\ pc'[t] \in LoanPC
    BY <1>1, <1>3 DEF BorrowFlagAccounted, Holds, KeepPC, LoanPC
  <2>1. CASE id[x] = i
    BY <2>1, <1>1, <1>2, Accounted DEF LendInv, LoanPC, KeepPC
  <2>2. CASE id[x] # i
    BY <2>2, <1>1, <1>2, Accounted DEF LendInv, LoanPC, KeepPC
  <2> QED BY <2>1, <2>2
<1>6. LendInv'
  <2> SUFFICES ASSUME NEW t \in Students, pc'[t] \in KeepPC
               PROVE  OnShelf(book[t])' # {} /\ book[t] \notin lost'
    BY <1>1, <1>5 DEF LendInv, OnShelf
  <2> QED BY <1>1, <1>2, <1>3, <1>4 DEF LendInv, KeepPC
<1>7. Shelf' = Shelf /\ Marked' = Marked
  BY <1>3 DEF Shelf, Marked, OnShelf
<1>8. <<s, i>> \in Loans
  BY <1>1, LoansPC DEF LoanPC, KeepPC
<1>9. Loans' = Loans \ {<<s, i>>}
  <2>1. Loans' = {l \in Students \X Books : book[l[1]] = l[2] /\ pc'[l[1]] \in LoanPC}
    BY <1>1 DEF Loans, Holds, KeepPC, LoanPC
  <2>2. ASSUME NEW l \in Students \X Books
        PROVE  l \in Loans' <=> l \in Loans \ {<<s, i>>}
    BY <2>1, <1>1, LoansPC DEF LoanPC, KeepPC
  <2> QED BY <2>1, <2>2, LoansPC
<1> QED BY <1>1, <1>6, <1>7, <1>8, <1>9 DEF Lend, Library!LendNext, Library!Forfeit

(* delete_book takes the book off the shelf when no student is left.       *)
LEMMA DeleteLendStep ==
  ASSUME IInv, LendInv, DeleteBook
  PROVE  LendInv' /\ Lend
<1> USE KylinRcuAssumption
<1> DEFINE i == book[Loader]
<1>1. PICK n \in OnShelf(i) :
        /\ Goto(Loader, "delete", "synchronize_rcu")
        /\ heap' = [heap EXCEPT ![n] = "unlinked"]
        /\ UNCHANGED <<id, borrow, book, lost>>
  BY DEF DeleteBook, bookvars
<1>2. /\ \A t \in Students : pc[t] = "off" /\ pc'[t] = "off"
      /\ i \in Books /\ n \in Linked /\ id[n] = i
      /\ Linked' = Linked \ {n}
  BY <1>1 DEF IInv, TypeOK, ListTypeOK, PhaseInv, Gone, Workers, Goto, OnShelf, Linked
<1>3. \A j : OnShelf(j)' = IF j = i THEN {} ELSE OnShelf(j)
  BY <1>1, <1>2 DEF OnShelf, IInv, OrderInv, OneEntryPerBook
<1>4. LendInv'
  <2>1. BorrowFlagAccounted'
    BY <1>1, <1>2, Accounted DEF LendInv, BorrowFlagAccounted, Holds, KeepPC, LoanPC
  <2> QED BY <2>1, <1>2 DEF LendInv, KeepPC
<1>5. /\ i \in Shelf /\ Shelf' = Shelf \ {i}
      /\ Marked' = Marked \ {i}
  BY <1>1, <1>2, <1>3 DEF Shelf, Marked
<1>6. Loans = {} /\ Loans' = {}
  BY <1>2 DEF Loans, Holds
<1>7. Library!Remove(i)
  BY <1>5, <1>6 DEF Library!Remove
<1> QED BY <1>2, <1>4, <1>7 DEF Lend, Library!LendNext

(* add_book puts a book on the shelf, or fails.                            *)
LEMMA AddLendStep ==
  ASSUME IInv, LendInv, LostInv, AddBook
  PROVE  LendInv' /\ (Lend \/ Stutter)
<1> USE KylinRcuAssumption
<1> DEFINE i == book[Loader]
<1>1. /\ pc[Loader] = "add" /\ \A t \in Students : pc[t] = "none" /\ pc'[t] = "none"
      /\ \A t \in Students : book'[t] = book[t]
      /\ UNCHANGED lost /\ i \in Books
  BY DEF AddBook, Goto, IInv, TypeOK, PhaseInv, Workers
<1>2. CASE UNCHANGED <<heap, next, prev, bookvars>>
  <2>1. Linked' = Linked
    BY <1>2 DEF Linked
  <2> QED BY <2>1, <1>1, <1>2, LendFrame DEF LoanPC, KeepPC, bookvars
<1>3. ASSUME NEW n \in Free,
             heap' = [heap EXCEPT ![n] = "linked"],
             id' = [id EXCEPT ![n] = i],
             borrow' = [borrow EXCEPT ![n] = 0]
      PROVE  LendInv' /\ Lend
  <2>1. /\ n \notin Linked /\ Linked' = Linked \cup {n}
        /\ id'[n] = i /\ borrow'[n] = 0
        /\ \A x \in Linked : id'[x] = id[x] /\ borrow'[x] = borrow[x]
    BY <1>3 DEF Free, Linked, IInv, TypeOK, ListTypeOK
  <2>2. \A x \in Linked : id[x] # i
    BY <1>1 DEF IInv, TypeOK, OrderInv, Books, Linked
  <2>3. \A j : OnShelf(j)' = IF j = i THEN {n} ELSE OnShelf(j)
    BY <2>1, <2>2 DEF OnShelf
  <2>4. lost = {} /\ borrow[n] \in {0, 1}
    BY <1>1 DEF LostInv, IInv, TypeOK, Free
  <2>5. LendInv'
    <3>1. BorrowFlagAccounted'
      BY <1>1, <2>1, <2>4, Accounted DEF LendInv, BorrowFlagAccounted, Holds, KeepPC, LoanPC
    <3> QED BY <3>1, <1>1 DEF LendInv, KeepPC
  <2>6. /\ i \notin Shelf /\ Shelf' = Shelf \cup {i}
        /\ Marked' = Marked
    BY <1>1, <2>1, <2>2, <2>3 DEF Shelf, Marked, OnShelf
  <2>7. Loans' = Loans
    BY <1>1 DEF Loans, Holds
  <2>8. Library!Add(i)
    BY <2>6, <2>7 DEF Library!Add
  <2> QED BY <1>1, <2>5, <2>8 DEF Lend, Library!LendNext
<1> QED BY <1>2, <1>3 DEF AddBook

-----------------------------------------------------------------------------
LEMMA NextLostInv ==
  ASSUME IInv, LostInv, [Next]_vars
  PROVE  LostInv'
<1> USE KylinRcuAssumption
<1>1. CASE UNCHANGED <<lost, pc>>
  BY <1>1 DEF LostInv
<1>2. CASE \E s \in Students : Student(s)
  <2>1. PICK s \in Students : pc[s] # "none" /\ pc'[Loader] = pc[Loader]
    BY <1>2 DEF Student, StudentLoop, BorrowLock, BorrowFind, BorrowFail, BorrowMark,
       BorrowReplace, BorrowRetire, ReturnLock, ReturnFind, ReturnFail, ReturnMark,
       ReturnReplace, ReturnRetire, Lock, Take, Fail, Mark, Replace, Publish, Retire,
       Goto, IInv, TypeOK
  <2> QED BY <2>1 DEF LostInv, IInv, PhaseInv, Workers
<1>3. CASE UNCHANGED lost /\ (pc'[Loader] = "add" => pc[Loader] = "add")
  BY <1>3 DEF LostInv
<1>4. CASE \E m \in Managers : Manager(m)
  BY <1>3, <1>4 DEF Manager, ManagerLoop, ReadLock, ReadNext, ReadOther, ReadFound,
     ReadUnlock, Goto, IInv, TypeOK
<1>5. CASE \/ AddBook \/ (\E t \in Workers : Spawn(t)) \/ Rmmod
           \/ (\E t \in Workers : KthreadStop(t) \/ KthreadStopErr(t)) \/ Exit
           \/ (\E n \in Node : RunCallback(n)) \/ Finished
  BY <1>1, <1>3, <1>5 DEF AddBook, Spawn, Rmmod, KthreadStop, KthreadStopErr, NextToStop,
     Exit, AllStopped, DeleteBook, DeleteNone, DeleteFree, NextDelete, RunCallback,
     Finished, Goto, vars, IInv, TypeOK, Workers
<1> QED BY <1>1, <1>2, <1>4, <1>5 DEF Next, vars

(* Every step of the module is one of Lending, or shows nothing of itself. *)
LEMMA NextLendInv ==
  ASSUME IInv, LendInv, LostInv, [Next]_vars
  PROVE  LendInv' /\ (Lend \/ Stutter)
<1>1. CASE UNCHANGED vars
  BY <1>1 DEF vars, listvars, bookvars, LendInv, BorrowFlagAccounted, Holds, OnShelf,
     Linked, Stutter, Shelf, Marked, Loans
<1>2. CASE \E s \in Students : Student(s)
  BY <1>2, StudentOtherStep, FindLendStep, MarkLendStep, ReplaceLendStep,
     ReturnFailLendStep DEF Student
<1>3. CASE \/ (\E t \in Workers : Spawn(t)) \/ Rmmod
           \/ (\E t \in Workers : KthreadStop(t) \/ KthreadStopErr(t))
           \/ AllStopped \/ DeleteNone
  BY <1>3, LoaderStep
<1>4. CASE AddBook \/ DeleteBook
  BY <1>4, AddLendStep, DeleteLendStep
<1>5. CASE (\E n \in Node : RunCallback(n)) \/ DeleteFree
  BY <1>5, FreeLendStep
<1>6. CASE \E m \in Managers : Manager(m)
  BY <1>6, ManagerLendStep
<1> QED BY <1>1, <1>2, <1>3, <1>4, <1>5, <1>6 DEF Next, Exit, Finished

LEMMA LendInvariance == Spec => [](IInv /\ LendInv /\ LostInv)
<1>1. Init => LendInv /\ LostInv
  BY InitLendInv DEF LostInv, Init
<1>2. LendInv /\ LostInv /\ IInv /\ [Next]_vars => LendInv' /\ LostInv'
  BY NextLendInv, NextLostInv
<1> QED BY <1>1, <1>2, Invariance, PTL DEF Spec

(* kylin_rcu.c implements the library of Lending: borrow_book takes effect *)
(* when it stores the flag, and so does return_book; none of the steps in  *)
(* which the list is changed, walked or freed shows.                       *)
THEOREM Implements == Spec => LendsBooks
<1>1. Init => Library!LendInit
  BY InitLendInv
<1>2. IInv /\ LendInv /\ LostInv /\ [Next]_vars => [Library!LendStep]_(Library!lendvars)
  BY NextLendInv DEF Lend, Stutter, Library!LendStep, Library!lendvars
<1> QED BY <1>1, <1>2, LendInvariance, PTL DEF Spec, LendsBooks, Library!LendSpec

(* No store into a flag is lost to a copy made by another student: a book  *)
(* says borrowed exactly as long as someone has to bring it back.          *)
THEOREM FlagsAccounted == Spec => []BorrowFlagAccounted
<1>1. LendInv => BorrowFlagAccounted
  BY DEF LendInv
<1> QED BY <1>1, LendInvariance, PTL

(* return_book finds the entry and finds it marked, whatever became of the *)
(* entry that the student borrowed.                                        *)
THEOREM ReturnSucceeds == Spec => []ReturnNeverRefused
<1>1. IInv /\ LendInv => ReturnNeverRefused
  BY StillReturnable DEF ReturnNeverRefused
<1> QED BY <1>1, LendInvariance, PTL
=============================================================================
